---- MODULE Spec2Model ----
(***************************************************************************)
(* Music-Crossword: the motif-to-grid pipeline (generate_crosswords.js),   *)
(* the reconciliation done by GET /api/puzzles/[id], the pitch encoder     *)
(* (pitchMapping.ts) and the client-side validation and grid state         *)
(* (validation.ts, stores/userInput.ts, CrosswordGrid, NotePicker).        *)
(*                                                                         *)
(* Strings are sequences of one-character strings: "C#" is <<"C", "#">>.   *)
(* JavaScript's null and undefined are the two values Null and Undefined,  *)
(* which are no strings of the program.                                    *)
(***************************************************************************)
EXTENDS Integers, Sequences, FiniteSets, TLC

VARIABLES
    \* ---- client session (stores/puzzle.ts, stores/userInput.ts) ----
    puzzleStore,        \* [puzzle, loading, error]
    userInput,          \* GridState: a sequence of rows, each a sequence of cells
    activeClueIndex,    \* 0-based clue index, or NoIndex
    activeCellPosition, \* [row, col], or NoCell
    gridInitialized,    \* the page's flag of initializePuzzleGrid
    pageId,             \* $page.params.id of the mounted puzzle page, 0 when none
    storage,            \* localStorage: puzzle id -> the saved GridState, if any
    fetching,           \* the ids of the loadPuzzle calls waiting for a response
    edits,              \* number of cell clicks, note entries and deletions so far
    mounts,             \* number of times the puzzle page was opened so far
    dbPuzzles,          \* the puzzles table: row i has id i
    \* ---- pitch encoder under test (pitchMapping.ts) ----
    encIn,              \* the string handed to the encoder
    encOut,             \* what the functions applied so far returned
    encOp,              \* the encoder functions applied so far, in order
    \* ---- generate_crosswords.js ----
    gen,                \* generateCrossword: its position, locals and result
    engineLog,          \* the calls of generateLayout so far: word count, outcome
    served,             \* the puzzle of the last GET /api/puzzles/[id] response
    \* ---- audio ----
    audioStore,         \* stores/audio.ts: playing, currentClueIndex
    sounding,           \* the melodies being played, in the order they started
    \* ---- validation passes (validation.ts) ----
    passes,             \* the maps the validateGrid calls so far returned
    \* ---- generate_crosswords.js, main ----
    main,               \* main: its position, locals, output and exit status
    \* ---- the motifs table written by database.ts ----
    motifsDb            \* its rows, the writes so far and the last call

vars == <<puzzleStore, userInput, activeClueIndex, activeCellPosition,
          gridInitialized, pageId, storage, fetching, edits, mounts, dbPuzzles,
          encIn, encOut, encOp, gen, engineLog, served, audioStore, sounding,
          passes, main, motifsDb>>

sessionVars == <<puzzleStore, userInput, activeClueIndex, activeCellPosition,
                 gridInitialized, pageId, storage, fetching, edits, mounts>>
encVars == <<encIn, encOut, encOp>>
genVars == <<gen, engineLog, served>>
audioVars == <<audioStore, sounding>>
valVars == <<passes>>
mainVars == <<main>>
dbVars == <<motifsDb>>

----------------------------------------------------------------------------
(* JavaScript values that are not strings *)

Null == <<"<null>">>
Undefined == <<"<undefined>">>
NoIndex == -1
NoCell == [row |-> -1, col |-> -1]

\* stores/audio.ts: initialState (volume and speed are never changed)
initialState == [playing |-> FALSE, currentClueIndex |-> NoIndex]

\* generateCrossword has not been called
GenIdle == [pc |-> "idle"]
MainIdle == [pc |-> "idle"]
DbIdle == [rows |-> <<>>, calls |-> 0, last |-> <<>>]

\* U+266F, the sharp sign letterToNote displays
SharpSign == "sharp-sign"

Truthy(v) == v # Null /\ v # Undefined /\ v # <<>>

----------------------------------------------------------------------------
(* pitchMapping.ts *)

\* The keys of PITCH_MAP
PitchNames ==
    { <<"C">>, <<"C", "#">>, <<"D", "b">>, <<"D">>, <<"D", "#">>, <<"E", "b">>,
      <<"E">>, <<"F">>, <<"F", "#">>, <<"G", "b">>, <<"G">>, <<"G", "#">>,
      <<"A", "b">>, <<"A">>, <<"A", "#">>, <<"B", "b">>, <<"B">> }

\* PITCH_MAP[note], Undefined for a missing key
PITCH_MAP(note) ==
    CASE note = <<"C">> -> <<"C">>
      [] note = <<"C", "#">> -> <<"D">>
      [] note = <<"D", "b">> -> <<"D">>
      [] note = <<"D">> -> <<"E">>
      [] note = <<"D", "#">> -> <<"F">>
      [] note = <<"E", "b">> -> <<"F">>
      [] note = <<"E">> -> <<"G">>
      [] note = <<"F">> -> <<"H">>
      [] note = <<"F", "#">> -> <<"I">>
      [] note = <<"G", "b">> -> <<"I">>
      [] note = <<"G">> -> <<"J">>
      [] note = <<"G", "#">> -> <<"K">>
      [] note = <<"A", "b">> -> <<"K">>
      [] note = <<"A">> -> <<"L">>
      [] note = <<"A", "#">> -> <<"M">>
      [] note = <<"B", "b">> -> <<"M">>
      [] note = <<"B">> -> <<"N">>
      [] OTHER -> Undefined

\* The keys of REVERSE_PITCH_MAP: the grid alphabet
GridLetters ==
    { <<"C">>, <<"D">>, <<"E">>, <<"F">>, <<"G">>, <<"H">>,
      <<"I">>, <<"J">>, <<"K">>, <<"L">>, <<"M">>, <<"N">> }

\* REVERSE_PITCH_MAP[letter], Undefined for a missing key
REVERSE_PITCH_MAP(letter) ==
    CASE letter = <<"C">> -> <<"C">>
      [] letter = <<"D">> -> <<"C", "#">>
      [] letter = <<"E">> -> <<"D">>
      [] letter = <<"F">> -> <<"D", "#">>
      [] letter = <<"G">> -> <<"E">>
      [] letter = <<"H">> -> <<"F">>
      [] letter = <<"I">> -> <<"F", "#">>
      [] letter = <<"J">> -> <<"G">>
      [] letter = <<"K">> -> <<"G", "#">>
      [] letter = <<"L">> -> <<"A">>
      [] letter = <<"M">> -> <<"A", "#">>
      [] letter = <<"N">> -> <<"B">>
      [] OTHER -> Undefined

CHROMATIC_NOTES ==
    << <<"C">>, <<"C", "#">>, <<"D">>, <<"D", "#">>, <<"E">>, <<"F">>,
       <<"F", "#">>, <<"G">>, <<"G", "#">>, <<"A">>, <<"A", "#">>, <<"B">> >>

\* String.prototype.replace(from, to) with a one-character pattern: the first
\* occurrence only
RECURSIVE ReplaceFirst(_, _, _)
ReplaceFirst(s, from, to) ==
    IF s = <<>> THEN <<>>
    ELSE IF Head(s) = from THEN <<to>> \o Tail(s)
    ELSE <<Head(s)>> \o ReplaceFirst(Tail(s), from, to)

\* String.prototype.toUpperCase, one character
UpperChar(c) ==
    CASE c = "a" -> "A" [] c = "b" -> "B" [] c = "c" -> "C" [] c = "d" -> "D"
      [] c = "e" -> "E" [] c = "f" -> "F" [] c = "g" -> "G" [] c = "h" -> "H"
      [] c = "i" -> "I" [] c = "j" -> "J" [] c = "k" -> "K" [] c = "l" -> "L"
      [] c = "m" -> "M" [] c = "n" -> "N" [] c = "o" -> "O" [] c = "p" -> "P"
      [] c = "q" -> "Q" [] c = "r" -> "R" [] c = "s" -> "S" [] c = "t" -> "T"
      [] c = "u" -> "U" [] c = "v" -> "V" [] c = "w" -> "W" [] c = "x" -> "X"
      [] c = "y" -> "Y" [] c = "z" -> "Z" [] OTHER -> c

ToUpperCase(s) == [i \in 1..Len(s) |-> UpperChar(s[i])]

letterToNote(letter) ==
    LET note == REVERSE_PITCH_MAP(ToUpperCase(letter))
    IN  IF ~Truthy(note) THEN letter
        ELSE ReplaceFirst(note, "#", SharpSign)

\* noteToLetter without the replacement of the sharp sign
noteToLetter_NoNormalize(note) ==
    LET mapped == PITCH_MAP(note)
    IN  IF Truthy(mapped) THEN mapped ELSE note

noteToLetter(note) ==
    LET normalized == ReplaceFirst(note, SharpSign, "#")
        mapped == PITCH_MAP(normalized)
    IN  IF Truthy(mapped) THEN mapped ELSE note

getNoteDisplayName(note) == ReplaceFirst(note, "#", SharpSign)


\* String.prototype.split(' '): every space separates, empty tokens are kept
RECURSIVE SplitFrom(_, _, _)
SplitFrom(s, cur, acc) ==
    IF s = <<>> THEN Append(acc, cur)
    ELSE IF Head(s) = " " THEN SplitFrom(Tail(s), <<>>, Append(acc, cur))
    ELSE SplitFrom(Tail(s), Append(cur, Head(s)), acc)

Split(s) == SplitFrom(s, <<>>, <<>>)

RECURSIVE TrimStart(_)
TrimStart(s) ==
    IF s # <<>> /\ Head(s) = " " THEN TrimStart(Tail(s)) ELSE s

RECURSIVE TrimEnd(_)
TrimEnd(s) ==
    IF s # <<>> /\ s[Len(s)] = " " THEN TrimEnd(SubSeq(s, 1, Len(s) - 1)) ELSE s

Trim(s) == TrimEnd(TrimStart(s))

\* pitchSequence.trim().split(/\s+/): a run of spaces is one separator
parsePitchSequence(pitchSequence) ==
    LET t == Trim(pitchSequence)
    IN  IF t = <<>> THEN << <<>> >>
        ELSE SelectSeq(Split(t), LAMBDA tok : tok # <<>>)

RECURSIVE Join(_)
Join(parts) ==
    IF parts = <<>> THEN <<>> ELSE Head(parts) \o Join(Tail(parts))

pitchSequenceToGridLetters(pitchSequence) ==
    LET notes == parsePitchSequence(pitchSequence)
    IN  Join([i \in 1..Len(notes) |-> noteToLetter(notes[i])])

----------------------------------------------------------------------------
(* validation.ts.  A grid is a sequence of rows, row y of the code is      *)
(* grid[y + 1]; a clue's position is 0-based.                              *)

HasRow(grid, y) == y \in 0..(Len(grid) - 1)

\* grid[y][x] for an existing row y
CellAt(grid, y, x) ==
    IF x \in 0..(Len(grid[y + 1]) - 1) THEN grid[y + 1][x + 1] ELSE Undefined

RECURSIVE WalkCorrect(_, _, _, _, _)
WalkCorrect(clue, grid, i, x, y) ==
    IF i >= Len(clue.answer) THEN TRUE
    ELSE IF y >= Len(grid) \/ x >= Len(grid[1]) THEN FALSE
    ELSE IF ~HasRow(grid, y) THEN FALSE
    ELSE IF CellAt(grid, y, x) # <<clue.answer[i + 1]>> THEN FALSE
    ELSE IF clue.orientation = "across"
         THEN WalkCorrect(clue, grid, i + 1, x + 1, y)
         ELSE WalkCorrect(clue, grid, i + 1, x, y + 1)

isWordCorrect(clue, grid) ==
    IF Len(grid) = 0 THEN FALSE
    ELSE WalkCorrect(clue, grid, 0, clue.position.x, clue.position.y)

RECURSIVE WalkFilled(_, _, _, _, _)
WalkFilled(clue, grid, i, x, y) ==
    IF i >= Len(clue.answer) THEN TRUE
    ELSE IF y >= Len(grid) \/ x >= Len(grid[1]) THEN FALSE
    ELSE IF ~HasRow(grid, y) THEN FALSE
    ELSE IF CellAt(grid, y, x) = Null \/ CellAt(grid, y, x) = <<>> THEN FALSE
    ELSE IF clue.orientation = "across"
         THEN WalkFilled(clue, grid, i + 1, x + 1, y)
         ELSE WalkFilled(clue, grid, i + 1, x, y + 1)

isWordFilled(clue, grid) ==
    IF Len(grid) = 0 THEN FALSE
    ELSE WalkFilled(clue, grid, 0, clue.position.x, clue.position.y)

\* validateGrid without the isWordCorrect call: a filled word counts as correct
validateGrid_FilledOnly(clues, grid) ==
    IF Len(grid) = 0
    THEN [index \in 0..(Len(clues) - 1) |-> FALSE]
    ELSE [index \in 0..(Len(clues) - 1) |-> isWordFilled(clues[index + 1], grid)]

\* validateGrid comparing the non-empty cells only: an empty cell passes
validateGrid_SkipsEmptyCells(clueList, grid) ==
    [index \in 0..(Len(clueList) - 1) |->
        LET clue == clueList[index + 1]
        IN  \A k \in 1..Len(clue.answer) :
               LET x == IF clue.orientation = "across"
                        THEN clue.position.x + (k - 1) ELSE clue.position.x
                   y == IF clue.orientation = "across"
                        THEN clue.position.y ELSE clue.position.y + (k - 1)
               IN  /\ HasRow(grid, y)
                   /\ CellAt(grid, y, x) \in {Null, <<clue.answer[k]>>}]

\* The Map clue index -> boolean, as a function on the 0-based indices
validateGrid(clueList, grid) ==
    IF Len(grid) = 0
    THEN [index \in 0..(Len(clueList) - 1) |-> FALSE]
    ELSE [index \in 0..(Len(clueList) - 1) |->
            IF isWordFilled(clueList[index + 1], grid)
            THEN isWordCorrect(clueList[index + 1], grid)
            ELSE FALSE]

\* The [row, col] pairs of a clue, in walking order
\* getClueCells walking every clue across
getClueCells_AlwaysAcross(clue) ==
    [i \in 1..Len(clue.answer) |->
        <<clue.position.y, clue.position.x + (i - 1)>>]

getClueCells(clue) ==
    [i \in 1..Len(clue.answer) |->
        IF clue.orientation = "across"
        THEN <<clue.position.y, clue.position.x + (i - 1)>>
        ELSE <<clue.position.y + (i - 1), clue.position.x>>]

InSeq(e, s) == \E i \in 1..Len(s) : s[i] = e

\* The clue indices covering a cell, ascending
RECURSIVE CluesAtFrom(_, _, _, _)
CluesAtFrom(clues, row, col, index) ==
    IF index >= Len(clues) THEN <<>>
    ELSE (IF InSeq(<<row, col>>, getClueCells(clues[index + 1]))
          THEN <<index>> ELSE <<>>)
         \o CluesAtFrom(clues, row, col, index + 1)

findCluesAtCell(clues, row, col) == CluesAtFrom(clues, row, col, 0)

\* Math.round(x / y * 100) for naturals x <= y, y > 0: round half up
RoundPercent(x, y) == (200 * x + y) \div (2 * y)

\* getCompletionPercentage counting the filled entries instead of the correct
getCompletionPercentage_OfFilled(clues, grid) ==
    IF Len(clues) = 0 THEN 0
    ELSE LET filledCount ==
                 Cardinality({i \in 1..Len(clues) : isWordFilled(clues[i], grid)})
         IN  RoundPercent(filledCount, Len(clues))

\* getCompletionPercentage as the share of the filled entries that are correct
getCompletionPercentage_AmongFilled(clues, grid) ==
    LET filled == {i \in 1..Len(clues) : isWordFilled(clues[i], grid)}
        correct == {i \in filled : isWordCorrect(clues[i], grid)}
    IN  IF filled = {} THEN 0
        ELSE RoundPercent(Cardinality(correct), Cardinality(filled))

getCompletionPercentage(clues, grid) ==
    IF Len(clues) = 0 THEN 0
    ELSE LET validation == validateGrid(clues, grid)
             correctCount == Cardinality({i \in DOMAIN validation : validation[i]})
         IN  RoundPercent(correctCount, Len(clues))


----------------------------------------------------------------------------
(* The motif table of music_crossword.db.  A pitch_sequence is the stored  *)
(* string, spaces included.                                                *)

MotifTable ==
    << [id |-> 1, pitch_sequence |-> <<"G", " ", "G", " ", "G", " ", "D", "#">>,
        rhythm_sequence |-> Null, descriptor |-> <<"m", "1">>, length |-> 4,
        difficulty |-> 1, recognition_score |-> 10, source_id |-> 1],
       [id |-> 2, pitch_sequence |-> <<"E", "b", " ", "G">>,
        rhythm_sequence |-> Null, descriptor |-> <<"m", "2">>, length |-> 2,
        difficulty |-> 1, recognition_score |-> 9, source_id |-> 1],
       [id |-> 3, pitch_sequence |-> <<"G", " ", "D">>,
        rhythm_sequence |-> Null, descriptor |-> <<"m", "3">>, length |-> 2,
        difficulty |-> 1, recognition_score |-> 9, source_id |-> 1],
       [id |-> 4, pitch_sequence |-> <<"C", "4", " ", "E", "4", " ", "G", "4">>,
        rhythm_sequence |-> Null, descriptor |-> Null, length |-> 3,
        difficulty |-> 1, recognition_score |-> 8, source_id |-> 1],
       [id |-> 5, pitch_sequence |-> <<"A", " ", "F">>,
        rhythm_sequence |-> Null, descriptor |-> <<"m", "5">>, length |-> 2,
        difficulty |-> 1, recognition_score |-> 7, source_id |-> 1],
       [id |-> 6, pitch_sequence |-> <<"E", " ", "A", " ", "B">>,
        rhythm_sequence |-> Null, descriptor |-> <<"m", "6">>, length |-> 3,
        difficulty |-> 5, recognition_score |-> 6, source_id |-> 2] >>

\* getMotifs(ids): the rows whose id is among ids (database.ts)
getMotifs(ids) ==
    IF Len(ids) = 0 THEN <<>>
    ELSE SelectSeq(MotifTable, LAMBDA m : InSeq(m.id, ids))

----------------------------------------------------------------------------
(* GET /api/puzzles/[id]: enrich the clues with motif data and normalise   *)
(* the position.  A stored clue carries position (an {x, y} object) or     *)
(* startx/starty or neither: a missing field is missing from the record.   *)

\* motifMap.get(motif_id) || null, as a sequence of at most one motif
MotifLookup(motifs, motif_id) ==
    SelectSeq(motifs, LAMBDA m : m.id = motif_id)

\* NormalizePosition keeping the 1-based coordinates
NormalizePosition_NoShift(clue) ==
    IF "position" \in DOMAIN clue
    THEN clue.position
    ELSE [x |-> IF "startx" \in DOMAIN clue THEN clue.startx ELSE 1,
          y |-> IF "starty" \in DOMAIN clue THEN clue.starty ELSE 1]

\* NormalizePosition with 0 for a missing startx or starty
NormalizePosition_DefaultZero(clue) ==
    IF "position" \in DOMAIN clue
    THEN clue.position
    ELSE [x |-> (IF "startx" \in DOMAIN clue THEN clue.startx ELSE 0) - 1,
          y |-> (IF "starty" \in DOMAIN clue THEN clue.starty ELSE 0) - 1]

\* NormalizePosition never looking at position
NormalizePosition_StartOnly(clue) ==
    [x |-> (IF "startx" \in DOMAIN clue THEN clue.startx ELSE 1) - 1,
     y |-> (IF "starty" \in DOMAIN clue THEN clue.starty ELSE 1) - 1]

NormalizePosition(clue) ==
    IF "position" \in DOMAIN clue
    THEN clue.position
    ELSE [x |-> (IF "startx" \in DOMAIN clue THEN clue.startx ELSE 1) - 1,
          y |-> (IF "starty" \in DOMAIN clue THEN clue.starty ELSE 1) - 1]

EnrichClue(clue, motifs) ==
    [f \in DOMAIN clue \cup {"position", "motif"} |->
        CASE f = "position" -> NormalizePosition(clue)
          [] f = "motif" ->
                (LET found == MotifLookup(motifs, clue.motif_id)
                 IN  IF found = <<>> THEN <<>> ELSE <<found[Len(found)]>>)
          [] OTHER -> clue[f]]

\* Variant: the entries without a matching motif are left out of the response
EnrichPuzzle_DropsUnmatched(puzzle) ==
    LET motifs == getMotifs(puzzle.motif_ids)
    IN  [puzzle EXCEPT !.layout.result =
            SelectSeq([i \in 1..Len(puzzle.layout.result) |->
                          EnrichClue(puzzle.layout.result[i], motifs)],
                      LAMBDA clue : clue.motif # <<>>)]

\* The puzzle of the response for a stored puzzle row
EnrichPuzzle(puzzle) ==
    LET motifs == getMotifs(puzzle.motif_ids)
    IN  [puzzle EXCEPT !.layout.result =
            [i \in 1..Len(puzzle.layout.result) |->
                EnrichClue(puzzle.layout.result[i], motifs)]]


----------------------------------------------------------------------------
(* Bounds of the client session *)

\* Cell clicks, note entries and deletions in one behaviour
MaxEdits == 4
\* Openings of the puzzle page in one behaviour
MaxMounts == 2
\* The notes of NotePicker's keyboard the user picks from: those of the stored
\* puzzles' answers, G (J), D# (F) and D (E)
Palette == { <<"G">>, <<"D", "#">>, <<"D">> }

\* Two stored puzzles: "G G G D#" alone, and "Eb G" across crossing "G D"
\* down at the G, one stored with an {x, y} position, one with startx/starty
StoredPuzzles ==
    << [id |-> 1,
        layout |-> [rows |-> 1, cols |-> 4,
                    table |-> << << <<"J">>, <<"J">>, <<"J">>, <<"F">> >> >>,
                    result |-> << [clue |-> <<"m", "1">>,
                                   answer |-> <<"J", "J", "J", "F">>,
                                   orientation |-> "across", motif_id |-> 1,
                                   startx |-> 1, starty |-> 1] >>],
        motif_ids |-> <<1>>, difficulty |-> 1],
       [id |-> 2,
        layout |-> [rows |-> 2, cols |-> 2,
                    table |-> << << <<"F">>, <<"J">> >>,
                                 << <<"-">>, <<"E">> >> >>,
                    result |-> << [clue |-> <<"m", "2">>,
                                   answer |-> <<"F", "J">>,
                                   orientation |-> "across", motif_id |-> 2,
                                   position |-> [x |-> 0, y |-> 0]],
                                  [clue |-> <<"m", "3">>,
                                   answer |-> <<"J", "E">>,
                                   orientation |-> "down", motif_id |-> 3,
                                   startx |-> 2, starty |-> 1] >>],
        motif_ids |-> <<2, 3>>, difficulty |-> 1] >>

\* The ids a puzzle page is opened with: the stored ones and one that is not
PageIds == {1, 2, 3}

----------------------------------------------------------------------------
(* stores/userInput.ts *)

\* note.match(/^([A-G][#b]?)/)
extractPitchClass(note) ==
    IF note # <<>> /\ note[1] \in {"A", "B", "C", "D", "E", "F", "G"}
    THEN IF Len(note) >= 2 /\ note[2] \in {"#", "b"}
         THEN SubSeq(note, 1, 2) ELSE SubSeq(note, 1, 1)
    ELSE note

getFirstNote(pitchSequence) ==
    IF ~Truthy(pitchSequence) THEN Null
    ELSE extractPitchClass(parsePitchSequence(pitchSequence)[1])

\* newGrid[y][x] = value for an existing row y: writing past the end of a
\* row lengthens it and leaves holes, which read as undefined
SetCell(grid, y, x, value) ==
    LET row == grid[y + 1]
        newRow == IF x < Len(row)
                  THEN [row EXCEPT ![x + 1] = value]
                  ELSE row \o [i \in 1..(x - Len(row)) |-> Undefined] \o <<value>>
    IN  [grid EXCEPT ![y + 1] = newRow]

\* The grid after the clues index + 1 .. Len(clues) have placed their first note
RECURSIVE PlaceFirstNotes(_, _, _, _, _)
PlaceFirstNotes(grid, clues, rows, cols, index) ==
    IF index >= Len(clues) THEN grid
    ELSE LET clue == clues[index + 1]
             firstNote == IF clue.motif # <<>> /\ Truthy(clue.motif[1].pitch_sequence)
                          THEN getFirstNote(clue.motif[1].pitch_sequence)
                          ELSE Null
             x == clue.position.x
             y == clue.position.y
             next == IF Truthy(firstNote) /\ y < rows /\ x < cols
                        /\ HasRow(grid, y) /\ x >= 0
                     THEN SetCell(grid, y, x, noteToLetter(firstNote))
                     ELSE grid
         IN  PlaceFirstNotes(next, clues, rows, cols, index + 1)

ensureFirstNotes(grid, clues, rows, cols) ==
    PlaceFirstNotes(grid, clues, rows, cols, 0)

\* The value initializeGrid sets userInput to
initializeGrid(rows, cols, clues) ==
    LET grid == [r \in 1..rows |-> [c \in 1..cols |-> Null]]
    IN  IF Len(clues) > 0 THEN ensureFirstNotes(grid, clues, rows, cols) ELSE grid

\* JSON.parse(JSON.stringify(grid)): a hole or undefined comes back as null
JsonRoundTrip(grid) ==
    [r \in 1..Len(grid) |->
        [c \in 1..Len(grid[r]) |->
            IF grid[r][c] = Undefined THEN Null ELSE grid[r][c]]]

\* The derived stores
clues == IF puzzleStore.puzzle = <<>> THEN <<>>
         ELSE puzzleStore.puzzle[1].layout.result

\* Variant: the map of the grid last saved for the page, when there is one
validation_OfSavedGrid ==
    IF puzzleStore.puzzle = <<>> THEN <<>>
    ELSE IF pageId # 0 /\ storage[pageId] # <<>>
    THEN validateGrid(puzzleStore.puzzle[1].layout.result, storage[pageId][1])
    ELSE validateGrid(puzzleStore.puzzle[1].layout.result, userInput)

validation ==
    IF puzzleStore.puzzle = <<>> THEN <<>>
    ELSE validateGrid(puzzleStore.puzzle[1].layout.result, userInput)

completionStatus ==
    IF puzzleStore.puzzle = <<>>
    THEN [solved |-> 0, total |-> 0, percentage |-> 0, isComplete |-> FALSE]
    ELSE LET total == Len(puzzleStore.puzzle[1].layout.result)
             results == validation
             solved == Cardinality({i \in DOMAIN results : results[i]})
         IN  [solved |-> solved, total |-> total,
              percentage |->
                getCompletionPercentage(puzzleStore.puzzle[1].layout.result, userInput),
              isComplete |-> solved = total]


----------------------------------------------------------------------------
(* routes/puzzle/[id]/+page.svelte *)

\* loadProgress(id): the saved grid, if any
loadProgress(id) == storage[id]

\* The grid initializePuzzleGrid sets for the puzzle in the store
InitialGridFor(puzzle, id) ==
    LET rows == puzzle.layout.rows
        cols == puzzle.layout.cols
        saved == loadProgress(id)
    IN  IF saved # <<>> /\ Len(saved[1]) = rows
           /\ Len(saved[1]) > 0 /\ Len(saved[1][1]) = cols
        THEN ensureFirstNotes(saved[1], puzzle.layout.result, rows, cols)
        ELSE initializeGrid(rows, cols, puzzle.layout.result)

\* initializePuzzleGrid() with the store holding `store`
initializePuzzleGrid(store, id) ==
    IF store.puzzle # <<>> /\ ~gridInitialized
    THEN /\ gridInitialized' = TRUE
         /\ userInput' = InitialGridFor(store.puzzle[1], id)
    ELSE UNCHANGED <<gridInitialized, userInput>>

\* The page is opened for puzzle id: a new component instance, onMount calls
\* loadPuzzle, whose first update keeps the puzzle the store already holds,
\* and the $effect runs initializePuzzleGrid when the store holds a puzzle
Mount(id) ==
    /\ pageId = 0
    /\ fetching = <<>>
    /\ mounts < MaxMounts
    /\ mounts' = mounts + 1
    /\ pageId' = id
    /\ puzzleStore' = [puzzleStore EXCEPT !.loading = TRUE, !.error = Null]
    /\ fetching' = <<id>>
    /\ IF puzzleStore.puzzle # <<>>
       THEN /\ gridInitialized' = TRUE
            /\ userInput' = InitialGridFor(puzzleStore.puzzle[1], id)
       ELSE /\ gridInitialized' = FALSE
            /\ UNCHANGED userInput
    /\ UNCHANGED <<activeClueIndex, activeCellPosition, storage, edits, dbPuzzles>>

\* getPuzzle(id): the row, if any
getPuzzle(id) == SelectSeq(dbPuzzles, LAMBDA row : row.id = id)

\* The response of GET /api/puzzles/[id] arrives: loadPuzzle sets the store,
\* then the $effect and onMount run initializePuzzleGrid
FetchDone ==
    /\ fetching # <<>>
    /\ fetching' = <<>>
    /\ LET found == getPuzzle(fetching[1])
           store == IF found # <<>>
                    THEN [puzzle |-> <<EnrichPuzzle(found[1])>>,
                          loading |-> FALSE, error |-> Null]
                    ELSE [puzzle |-> <<>>, loading |-> FALSE,
                          error |-> <<"P", "u", "z", "z", "l", "e", " ",
                                      "n", "o", "t", " ", "f", "o", "u", "n", "d">>]
       IN  /\ puzzleStore' = store
           /\ initializePuzzleGrid(store, pageId)
    /\ UNCHANGED <<activeClueIndex, activeCellPosition, pageId, storage, edits,
                   mounts, dbPuzzles>>

\* saveProgress(puzzleId)
saveProgress(id) == storage' = [storage EXCEPT ![id] = <<JsonRoundTrip(userInput)>>]

\* The page is left (handleGoBack): onDestroy saves the grid
Unmount ==
    /\ pageId # 0
    /\ fetching = <<>>
    /\ pageId' = 0
    /\ IF puzzleStore.puzzle # <<>> THEN saveProgress(pageId) ELSE UNCHANGED storage
    /\ UNCHANGED <<puzzleStore, userInput, activeClueIndex, activeCellPosition,
                   gridInitialized, fetching, edits, mounts, dbPuzzles>>

\* The puzzle view, not the loading or the error screen, is on display
PuzzleShown ==
    /\ pageId # 0
    /\ ~puzzleStore.loading
    /\ puzzleStore.error = Null
    /\ puzzleStore.puzzle # <<>>

layout == puzzleStore.puzzle[1].layout

\* clearGrid()
handleClearPuzzle ==
    /\ PuzzleShown
    /\ userInput' = initializeGrid(layout.rows, layout.cols, layout.result)
    /\ UNCHANGED <<puzzleStore, activeClueIndex, activeCellPosition,
                   gridInitialized, pageId, storage, fetching, edits, mounts,
                   dbPuzzles>>

----------------------------------------------------------------------------
(* CrosswordGrid.svelte *)

handleCellClick(row, col) ==
    /\ PuzzleShown
    /\ layout.table[row + 1][col + 1] # <<"-">>
    /\ edits < MaxEdits
    /\ edits' = edits + 1
    /\ activeCellPosition' = [row |-> row, col |-> col]
    /\ LET clueIndices == findCluesAtCell(clues, row, col)
       IN  IF Len(clueIndices) > 0
           THEN IF activeClueIndex # NoIndex /\ InSeq(activeClueIndex, clueIndices)
                   /\ Len(clueIndices) > 1
                THEN LET others == SelectSeq(clueIndices,
                                             LAMBDA i : i # activeClueIndex)
                     IN  activeClueIndex' =
                            IF others # <<>> THEN others[1] ELSE clueIndices[1]
                ELSE activeClueIndex' = clueIndices[1]
           ELSE UNCHANGED activeClueIndex
    /\ UNCHANGED <<puzzleStore, userInput, gridInitialized, pageId, storage,
                   fetching, mounts, dbPuzzles>>

isCellEmpty(row, col) == layout.table[row + 1][col + 1] = <<"-">>

\* "true", "false" or "null"
getCellValidation(row, col) ==
    IF ~HasRow(userInput, row) \/ CellAt(userInput, row, col) = Null THEN "null"
    ELSE LET clueIndices == findCluesAtCell(clues, row, col)
         IN  IF Len(clueIndices) = 0 THEN "null"
             ELSE IF validation[clueIndices[1]] THEN "true" ELSE "false"

\* CrosswordCell.svelte: the class of the cell at (row, col)
cellClass(row, col) ==
    LET value == IF HasRow(userInput, row) /\ CellAt(userInput, row, col) # Undefined
                 THEN CellAt(userInput, row, col) ELSE Null
        isCorrect == getCellValidation(row, col)
        isActive == activeClueIndex # NoIndex /\ activeClueIndex < Len(clues)
                    /\ InSeq(<<row, col>>, getClueCells(clues[activeClueIndex + 1]))
    IN  IF isCellEmpty(row, col) THEN "empty"
        ELSE IF isCorrect = "true" THEN "correct"
        ELSE IF isCorrect = "false" THEN "incorrect"
        ELSE IF isActive THEN "active"
        ELSE IF Truthy(value) THEN "filled"
        ELSE ""

----------------------------------------------------------------------------
(* NotePicker.svelte *)

\* $userInput[row]?.[col]
InputAt(grid, row, col) ==
    IF HasRow(grid, row) THEN CellAt(grid, row, col) ELSE Undefined

\* cells.findIndex(...), 0-based, -1 when the active cell is not on the clue
IndexOfCell(cells, pos) ==
    IF InSeq(<<pos.row, pos.col>>, cells)
    THEN (CHOOSE i \in 1..Len(cells) :
            /\ cells[i] = <<pos.row, pos.col>>
            /\ \A j \in 1..(i - 1) : cells[j] # <<pos.row, pos.col>>) - 1
    ELSE -1

\* The active cell after moveToNextCell() on the grid `grid`
moveToNextCell(grid) ==
    IF activeClueIndex = NoIndex \/ activeClueIndex >= Len(clues)
    THEN activeCellPosition
    ELSE LET cells == getClueCells(clues[activeClueIndex + 1])
             currentIndex == IndexOfCell(cells, activeCellPosition)
             empties == {i \in (currentIndex + 2)..Len(cells) :
                            InputAt(grid, cells[i][1], cells[i][2]) \in {Null, <<>>}}
         IN  IF currentIndex = -1 THEN activeCellPosition
             ELSE IF empties # {}
             THEN LET i == CHOOSE i \in empties : \A j \in empties : i <= j
                  IN  [row |-> cells[i][1], col |-> cells[i][2]]
             ELSE IF currentIndex < Len(cells) - 1
             THEN [row |-> cells[Len(cells)][1], col |-> cells[Len(cells)][2]]
             ELSE activeCellPosition

\* The active cell after moveToPreviousCell() on the grid `grid`
moveToPreviousCell(grid) ==
    IF activeClueIndex = NoIndex \/ activeClueIndex >= Len(clues)
    THEN activeCellPosition
    ELSE LET cells == getClueCells(clues[activeClueIndex + 1])
             currentIndex == IndexOfCell(cells, activeCellPosition)
             currentValue == InputAt(grid, activeCellPosition.row, activeCellPosition.col)
         IN  IF currentIndex = -1 THEN activeCellPosition
             ELSE IF currentValue \in {Null, <<>>} /\ currentIndex > 0
             THEN [row |-> cells[currentIndex][1], col |-> cells[currentIndex][2]]
             ELSE activeCellPosition

\* A note of the keyboard is picked.  The write throws when the grid has no
\* row `row`, and the handler ends there.
selectNote(note) ==
    /\ PuzzleShown
    /\ edits < MaxEdits
    /\ activeCellPosition # NoCell
    /\ edits' = edits + 1
    /\ IF HasRow(userInput, activeCellPosition.row)
       THEN LET newGrid == SetCell(userInput, activeCellPosition.row,
                                   activeCellPosition.col, noteToLetter(note))
            IN  /\ userInput' = newGrid
                /\ activeCellPosition' = moveToNextCell(newGrid)
       ELSE UNCHANGED <<userInput, activeCellPosition>>
    /\ UNCHANGED <<puzzleStore, activeClueIndex, gridInitialized, pageId, storage,
                   fetching, mounts, dbPuzzles>>

\* Backspace or Delete
handleBackspace ==
    /\ PuzzleShown
    /\ edits < MaxEdits
    /\ activeCellPosition # NoCell
    /\ edits' = edits + 1
    /\ IF HasRow(userInput, activeCellPosition.row)
       THEN LET newGrid == SetCell(userInput, activeCellPosition.row,
                                   activeCellPosition.col, Null)
            IN  /\ userInput' = newGrid
                /\ activeCellPosition' = moveToPreviousCell(newGrid)
       ELSE UNCHANGED <<userInput, activeCellPosition>>
    /\ UNCHANGED <<puzzleStore, activeClueIndex, gridInitialized, pageId, storage,
                   fetching, mounts, dbPuzzles>>

----------------------------------------------------------------------------
(* The solving session *)

Init ==
    /\ puzzleStore = [puzzle |-> <<>>, loading |-> FALSE, error |-> Null]
    /\ userInput = <<>>
    /\ activeClueIndex = NoIndex
    /\ activeCellPosition = NoCell
    /\ gridInitialized = FALSE
    /\ pageId = 0
    /\ storage = [id \in PageIds |-> <<>>]
    /\ fetching = <<>>
    /\ edits = 0
    /\ mounts = 0
    /\ dbPuzzles = StoredPuzzles
    /\ encIn = <<>>
    /\ encOut = <<>>
    /\ encOp = <<>>
    /\ gen = GenIdle
    /\ engineLog = <<>>
    /\ served = <<>>
    /\ audioStore = initialState
    /\ sounding = <<>>
    /\ passes = <<>>
    /\ main = MainIdle
    /\ motifsDb = DbIdle

Next ==
    \/ \E id \in PageIds : Mount(id) /\ UNCHANGED <<encVars, genVars, audioVars, valVars, mainVars, dbVars>>
    \/ FetchDone /\ UNCHANGED <<encVars, genVars, audioVars, valVars, mainVars, dbVars>>
    \/ Unmount /\ UNCHANGED <<encVars, genVars, audioVars, valVars, mainVars, dbVars>>
    \/ handleClearPuzzle /\ UNCHANGED <<encVars, genVars, audioVars, valVars, mainVars, dbVars>>
    \/ \E row \in 0..1, col \in 0..3 :
          /\ PuzzleShown
          /\ row < layout.rows /\ col < layout.cols
          /\ handleCellClick(row, col)
          /\ UNCHANGED <<encVars, genVars, audioVars, valVars, mainVars, dbVars>>
    \/ \E note \in Palette : selectNote(note) /\ UNCHANGED <<encVars, genVars, audioVars, valVars, mainVars, dbVars>>
    \/ handleBackspace /\ UNCHANGED <<encVars, genVars, audioVars, valVars, mainVars, dbVars>>

Spec == Init /\ [][Next]_vars


----------------------------------------------------------------------------
(* Claims about validation *)

\* The cell an Entry's k-th character (k from 1) is walked to: <<row, col>>
WalkedCell(clue, k) ==
    IF clue.orientation = "across"
    THEN <<clue.position.y, clue.position.x + (k - 1)>>
    ELSE <<clue.position.y + (k - 1), clue.position.x>>

\* The grid holds a cell at <<row, col>>
CellExists(grid, cell) ==
    /\ HasRow(grid, cell[1])
    /\ cell[2] \in 0..(Len(grid[cell[1] + 1]) - 1)

\* Every walked cell is non-empty
EveryCellFilled(clue, grid) ==
    \A k \in 1..Len(clue.answer) :
        /\ CellExists(grid, WalkedCell(clue, k))
        /\ CellAt(grid, WalkedCell(clue, k)[1], WalkedCell(clue, k)[2])
              \notin {Null, Undefined, <<>>}

\* Every walked cell holds the corresponding character of answer
EveryCellMatches(clue, grid) ==
    \A k \in 1..Len(clue.answer) :
        /\ CellExists(grid, WalkedCell(clue, k))
        /\ CellAt(grid, WalkedCell(clue, k)[1], WalkedCell(clue, k)[2])
              = <<clue.answer[k]>>

GridJJJF == << << <<"J">>, <<"J">>, <<"J">>, <<"F">> >> >>
GridJJJE == << << <<"J">>, <<"J">>, <<"J">>, <<"E">> >> >>

ShowsPuzzle(id) == PuzzleShown /\ puzzleStore.puzzle[1].id = id

\* C1: validateGrid marks an Entry correct if and only if every cell walked
\* from its position, one column per character for across and one row per
\* character for down, is non-empty and holds the corresponding character of
\* answer; for "JJJF" at (0,0) across, [J,J,J,F] is correct and [J,J,J,E] is
\* filled but not correct.
C1_ValidateGridCorrectIff ==
    /\ \A index \in DOMAIN validation :
          validation[index] <=>
             (/\ EveryCellFilled(clues[index + 1], userInput)
              /\ EveryCellMatches(clues[index + 1], userInput))
    /\ (ShowsPuzzle(1) /\ userInput = GridJJJF) => validation[0]
    /\ (ShowsPuzzle(1) /\ userInput = GridJJJE) =>
          (isWordFilled(clues[1], userInput) /\ ~validation[0])

\* The user has filled in "JJJF" and the Entry validates correct
C1_Witness ==
    /\ ShowsPuzzle(1)
    /\ userInput = GridJJJF
    /\ validation[0]

\* The last cell was filled in wrongly
C1_WitnessWrong ==
    /\ ShowsPuzzle(1)
    /\ userInput = GridJJJE
    /\ ~validation[0]

\* The clue deciding the colour of the cell at (row, col): the first covering it
DecidingClue(row, col) == findCluesAtCell(clues, row, col)[1]

\* C2: an Entry that is not yet filled is neither correct nor incorrect: no
\* cell of a partially-filled Entry is displayed as 'incorrect' because of
\* that Entry.
C2_NoIncorrectOnPartial ==
    PuzzleShown =>
        \A row \in 0..(layout.rows - 1), col \in 0..(layout.cols - 1) :
            cellClass(row, col) = "incorrect" =>
                isWordFilled(clues[DecidingClue(row, col) + 1], userInput)


----------------------------------------------------------------------------
(* generate_crosswords.js: the pitch encoder of the generator *)

Max(a, b) == IF a >= b THEN a ELSE b
Min(a, b) == IF a <= b THEN a ELSE b

\* The value of an expression whose evaluation throws a TypeError
TypeError == <<"<TypeError>">>

Digits == {"0", "1", "2", "3", "4", "5", "6", "7", "8", "9"}

\* pitch.replace(/\d+$/, '')
RECURSIVE StripTrailingDigits(_)
StripTrailingDigits(s) ==
    IF s # <<>> /\ s[Len(s)] \in Digits
    THEN StripTrailingDigits(SubSeq(s, 1, Len(s) - 1))
    ELSE s

\* The pitchMap literal of normalizePitch
pitchMap(pitchClass) ==
    CASE pitchClass = <<"C">> -> <<"C">>
      [] pitchClass = <<"C", "#">> -> <<"D">>
      [] pitchClass = <<"D", "b">> -> <<"D">>
      [] pitchClass = <<"D">> -> <<"E">>
      [] pitchClass = <<"D", "#">> -> <<"F">>
      [] pitchClass = <<"E", "b">> -> <<"F">>
      [] pitchClass = <<"E">> -> <<"G">>
      [] pitchClass = <<"F">> -> <<"H">>
      [] pitchClass = <<"F", "#">> -> <<"I">>
      [] pitchClass = <<"G", "b">> -> <<"I">>
      [] pitchClass = <<"G">> -> <<"J">>
      [] pitchClass = <<"G", "#">> -> <<"K">>
      [] pitchClass = <<"A", "b">> -> <<"K">>
      [] pitchClass = <<"A">> -> <<"L">>
      [] pitchClass = <<"A", "#">> -> <<"M">>
      [] pitchClass = <<"B", "b">> -> <<"M">>
      [] pitchClass = <<"B">> -> <<"N">>
      [] OTHER -> Undefined

\* pitchMap[pitchClass] || pitchClass[0].toUpperCase(): the empty string has
\* no first character, and calling toUpperCase on undefined throws
normalizePitch(pitch) ==
    LET pitchClass == StripTrailingDigits(pitch)
    IN  IF pitchMap(pitchClass) # Undefined THEN pitchMap(pitchClass)
        ELSE IF pitchClass = <<>> THEN TypeError
        ELSE <<UpperChar(pitchClass[1])>>

----------------------------------------------------------------------------
(* The pitch encoder applied to single tokens *)

\* Encoder functions applied in a row
MaxOps == 2

\* Spellings of pitch classes that are not keys of the tables: E sharp (F),
\* F flat (E), B sharp (C) and C flat (B)
FurtherSpellings ==
    { <<"E", "#">>, <<"F", "b">>, <<"B", "#">>, <<"C", "b">> }

\* The strings handed to the encoders: the note spellings, the grid letters,
\* the displayed spellings, octave-tagged notes, further spellings, a
\* lower-case letter and a string that is no note
EncInputs ==
    PitchNames \cup GridLetters
    \cup {getNoteDisplayName(CHROMATIC_NOTES[i]) : i \in 1..Len(CHROMATIC_NOTES)}
    \cup { <<"C", "4">>, <<"D", "#", "5">>, <<"j">>, <<"X">>, <<>> }
    \cup { note \o <<"4">> : note \in PitchNames }
    \cup FurtherSpellings

EncInit ==
    /\ puzzleStore = [puzzle |-> <<>>, loading |-> FALSE, error |-> Null]
    /\ userInput = <<>>
    /\ activeClueIndex = NoIndex
    /\ activeCellPosition = NoCell
    /\ gridInitialized = FALSE
    /\ pageId = 0
    /\ storage = [id \in PageIds |-> <<>>]
    /\ fetching = <<>>
    /\ edits = 0
    /\ mounts = 0
    /\ dbPuzzles = StoredPuzzles
    /\ encIn \in EncInputs
    /\ encOut = encIn
    /\ encOp = <<>>
    /\ gen = GenIdle
    /\ engineLog = <<>>
    /\ served = <<>>
    /\ audioStore = initialState
    /\ sounding = <<>>
    /\ passes = <<>>
    /\ main = MainIdle
    /\ motifsDb = DbIdle

ApplyNoteToLetter ==
    /\ Len(encOp) < MaxOps
    /\ encOut' = noteToLetter(encOut)
    /\ encOp' = Append(encOp, "noteToLetter")
    /\ UNCHANGED <<encIn, sessionVars, dbPuzzles, genVars, audioVars, valVars, mainVars, dbVars>>

ApplyLetterToNote ==
    /\ Len(encOp) < MaxOps
    /\ encOut' = letterToNote(encOut)
    /\ encOp' = Append(encOp, "letterToNote")
    /\ UNCHANGED <<encIn, sessionVars, dbPuzzles, genVars, audioVars, valVars, mainVars, dbVars>>

ApplyNormalizePitch ==
    /\ Len(encOp) < MaxOps
    /\ encOut' = normalizePitch(encOut)
    /\ encOp' = Append(encOp, "normalizePitch")
    /\ UNCHANGED <<encIn, sessionVars, dbPuzzles, genVars, audioVars, valVars, mainVars, dbVars>>

EncNext == ApplyNoteToLetter \/ ApplyLetterToNote \/ ApplyNormalizePitch

SpecEnc == EncInit /\ [][EncNext]_vars

\* The canonical, sharp-preference spelling of each of the 12 pitch classes
CanonicalSpellings == {CHROMATIC_NOTES[i] : i \in 1..Len(CHROMATIC_NOTES)}

Encoded == encOp = <<"noteToLetter">>
EncodedThenDecoded == encOp = <<"noteToLetter", "letterToNote">>
DecodedThenEncoded == encOp = <<"letterToNote", "noteToLetter">>

C10_WitnessSharp ==
    /\ EncodedThenDecoded
    /\ encIn = <<"C", "#">>
    /\ encOut = <<"C", SharpSign>>

----------------------------------------------------------------------------
(* generate_crosswords.js: the puzzle generator.  A nullable option is a   *)
(* sequence of at most one value, <<>> being null.                         *)

\* `${motif.id}` for the ids of the model
IdString(id) ==
    CASE id = 0 -> <<"0">> [] id = 1 -> <<"1">> [] id = 2 -> <<"2">>
      [] id = 3 -> <<"3">> [] id = 4 -> <<"4">> [] id = 5 -> <<"5">>
      [] id = 6 -> <<"6">> [] id = 7 -> <<"7">> [] id = 8 -> <<"8">>
      [] OTHER -> <<"9">>

\* One element of motifsToEntries; its answer is TypeError when a token of the
\* pitch sequence makes normalizePitch throw
motifToEntry(motif) ==
    LET tokens == Split(motif.pitch_sequence)
        letters == [i \in 1..Len(tokens) |-> normalizePitch(tokens[i])]
    IN  [clue |-> IF motif.descriptor \in {Null, <<>>}
                  THEN <<"M", "o", "t", "i", "f", " ">> \o IdString(motif.id)
                  ELSE motif.descriptor,
         answer |-> IF InSeq(TypeError, letters) THEN TypeError
                    ELSE Join(letters),
         motif_id |-> motif.id,
         original_sequence |-> motif.pitch_sequence,
         difficulty |-> motif.difficulty,
         recognition_score |-> motif.recognition_score]

motifsToEntries(motifs) == [i \in 1..Len(motifs) |-> motifToEntry(motifs[i])]

\* The WHERE clause of fetchMotifs without `id NOT IN (...)`
MatchesQuery_NoExclusion(m, options) ==
    /\ m.length >= options.minLength
    /\ m.length <= options.maxLength
    /\ (options.sourceId # <<>> => m.source_id = options.sourceId[1])
    /\ (options.difficulty # <<>> => m.difficulty = options.difficulty[1])
    /\ (options.minRecognition # <<>> =>
            m.recognition_score >= options.minRecognition[1])

\* The WHERE clause of fetchMotifs
MatchesQuery(m, options) ==
    /\ m.length >= options.minLength
    /\ m.length <= options.maxLength
    /\ (options.sourceId # <<>> => m.source_id = options.sourceId[1])
    /\ (options.difficulty # <<>> => m.difficulty = options.difficulty[1])
    /\ (options.minRecognition # <<>> =>
            m.recognition_score >= options.minRecognition[1])
    /\ ~InSeq(m.id, options.excludeMotifIds)

\* ORDER BY recognition_score DESC, RANDOM(): every order of the rows with the
\* scores descending
RECURSIVE OrderedByRecognition(_)
OrderedByRecognition(rows) ==
    IF rows = {} THEN { <<>> }
    ELSE UNION { { <<m>> \o rest : rest \in OrderedByRecognition(rows \ {m}) } :
                 m \in { m \in rows : \A n \in rows :
                             n.recognition_score <= m.recognition_score } }

\* The results fetchMotifs can return: the matching rows, ordered, cut at limit
fetchMotifs(options) ==
    LET rows == { MotifTable[i] : i \in { i \in 1..Len(MotifTable) :
                                    MatchesQuery(MotifTable[i], options) } }
    IN  { SubSeq(ordered, 1, Min(options.limit, Len(ordered))) :
          ordered \in OrderedByRecognition(rows) }

----------------------------------------------------------------------------
(* The layout engine, generateLayout of crossword-layout-generator, by its *)
(* contract: the words it places appear contiguously, across or down, in a *)
(* rectangular table whose other cells are blocked ("-"); crossing words   *)
(* agree on the shared cell; it may leave words out; an entry of result    *)
(* keeps the fields of its input word and carries its orientation and      *)
(* either position {x, y} (0-based) or startx/starty (1-based).            *)

\* Words the modelled engine places at most
MaxPlaced == 2

Orientations == {"across", "down"}
Other(o) == IF o = "across" THEN "down" ELSE "across"

\* The cell <<row, col>> of letter k of a placed word
PlacedCell(p, k) ==
    IF p.o = "across" THEN <<p.y, p.x + k - 1>> ELSE <<p.y + k - 1, p.x>>

WordLen(words, p) == Len(words[p.i].answer)

PlacedCells(words, p) == { PlacedCell(p, k) : k \in 1..WordLen(words, p) }

\* Word j laid across placed word p: letter b of j on letter a of p
CrossAt(p, j, a, b) ==
    IF p.o = "across"
    THEN [i |-> j, o |-> "down", x |-> p.x + a - 1, y |-> p.y - (b - 1)]
    ELSE [i |-> j, o |-> "across", x |-> p.x - (b - 1), y |-> p.y + a - 1]

Crossings(words, p, j) ==
    { CrossAt(p, j, ab[1], ab[2]) :
      ab \in { ab \in (1..WordLen(words, p)) \X (1..Len(words[j].answer)) :
               words[p.i].answer[ab[1]] = words[j].answer[ab[2]] } }

\* q can join the placed words: it agrees with every word it meets and shares
\* no cell with a word of its own orientation
Fits(words, placed, q) ==
    \A p \in placed :
        /\ p.o = q.o => PlacedCells(words, p) \cap PlacedCells(words, q) = {}
        /\ \A a \in 1..WordLen(words, p), b \in 1..WordLen(words, q) :
              PlacedCell(p, a) = PlacedCell(q, b) =>
                  words[p.i].answer[a] = words[q.i].answer[b]

Grow(words, placed) ==
    LET unused == { j \in 1..Len(words) : \A p \in placed : p.i # j }
        candidates == UNION { Crossings(words, p, j) :
                              p \in placed, j \in unused }
    IN  { placed \cup {q} : q \in { q \in candidates : Fits(words, placed, q) } }

\* The connected placements of at most n of the words
RECURSIVE Placements(_, _)
Placements(words, n) ==
    IF n <= 1
    THEN { { [i |-> j, o |-> o, x |-> 0, y |-> 0] } :
           j \in 1..Len(words), o \in Orientations }
    ELSE LET fewer == Placements(words, n - 1)
         IN  fewer \cup UNION { Grow(words, placed) :
                                placed \in { s \in fewer :
                                             Cardinality(s) = n - 1 } }

SetMin(s) == CHOOSE m \in s : \A n \in s : m <= n
SetMax(s) == CHOOSE m \in s : \A n \in s : m >= n

CoordinateConventions == {"position", "start"}

\* The entry of result for a placed word, (left, top) being the table's origin
PlacedEntry(word, p, left, top, convention) ==
    LET coordinates == IF convention = "position" THEN {"position"}
                       ELSE {"startx", "starty"}
    IN  [f \in DOMAIN word \cup {"orientation"} \cup coordinates |->
            CASE f = "orientation" -> p.o
              [] f = "position" -> [x |-> p.x - left, y |-> p.y - top]
              [] f = "startx" -> p.x - left + 1
              [] f = "starty" -> p.y - top + 1
              [] OTHER -> word[f]]

\* The layout object for a placement
LayoutOf(words, placed, convention) ==
    LET cells == UNION { PlacedCells(words, p) : p \in placed }
        top == SetMin({ c[1] : c \in cells })
        left == SetMin({ c[2] : c \in cells })
        rows == SetMax({ c[1] : c \in cells }) - top + 1
        cols == SetMax({ c[2] : c \in cells }) - left + 1
        letterAt(r, c) ==
            LET on == { pk \in UNION { { <<p, k>> : k \in 1..WordLen(words, p) } :
                                        p \in placed } :
                        PlacedCell(pk[1], pk[2]) = <<r + top, c + left>> }
            IN  IF on = {} THEN <<"-">>
                ELSE LET pk == CHOOSE pk \in on : TRUE
                     IN  <<words[pk[1].i].answer[pk[2]]>>
        used == SelectSeq([j \in 1..Len(words) |-> j],
                          LAMBDA j : \E p \in placed : p.i = j)
    IN  [rows |-> rows, cols |-> cols,
         table |-> [r \in 1..rows |-> [c \in 1..cols |-> letterAt(r - 1, c - 1)]],
         result |-> [n \in 1..Len(used) |->
                        PlacedEntry(words[used[n]],
                                    CHOOSE p \in placed : p.i = used[n],
                                    left, top, convention)]]

\* What a call of generateLayout(words) can do: throw, return nothing, return
\* an object without a table, or return a layout
generateLayout(words) ==
    { [outcome |-> "throws", value |-> <<>>],
      [outcome |-> "nothing", value |-> <<>>],
      [outcome |-> "noGrid", value |-> << [result |-> <<>>] >>] }
    \cup { [outcome |-> "grid", value |-> <<LayoutOf(words, placed, convention)>>] :
           placed \in Placements(words, Min(MaxPlaced, Len(words))),
           convention \in CoordinateConventions }

----------------------------------------------------------------------------
(* generateCrossword, saveCrossword and the GET handler *)

\* Largest numWords option
MaxNumWords == 10

\* The filter options of the calls
FilterChoices ==
    { [minLength |-> 2, maxLength |-> 12, difficulty |-> <<1>>,
       minRecognition |-> <<6>>, sourceId |-> <<1>>, excludeMotifIds |-> <<>>],
      [minLength |-> 2, maxLength |-> 12, difficulty |-> <<>>,
       minRecognition |-> <<>>, sourceId |-> <<>>, excludeMotifIds |-> <<>>],
      [minLength |-> 2, maxLength |-> 12, difficulty |-> <<>>,
       minRecognition |-> <<11>>, sourceId |-> <<>>, excludeMotifIds |-> <<>>],
      [minLength |-> 4, maxLength |-> 12, difficulty |-> <<>>,
       minRecognition |-> <<>>, sourceId |-> <<>>, excludeMotifIds |-> <<>>],
      [minLength |-> 2, maxLength |-> 12, difficulty |-> <<>>,
       minRecognition |-> <<>>, sourceId |-> <<>>,
       excludeMotifIds |-> <<1, 2, 3>>] }

GenOptions ==
    { [f \in DOMAIN filter \cup {"numWords"} |->
          IF f = "numWords" THEN numWords ELSE filter[f]] :
      filter \in FilterChoices, numWords \in 4..MaxNumWords }

\* The least word count the loop tries, with every bound removed
wordCountFloor_None(numWords) == 1

\* The least word count the loop tries
wordCountFloor(numWords) == Max(5, numWords - 3)

\* The condition of the for loop
LoopContinues(g) ==
    /\ g.wordCount >= wordCountFloor(g.numWords)
    /\ g.layoutResult = <<>>

HasTable(layoutResult) ==
    layoutResult # <<>> /\ "table" \in DOMAIN layoutResult[1]

Slice(s, n) == SubSeq(s, 1, Min(n, Len(s)))

\* The statements after the loop: null, or the crossword object
ReturnOf(g) ==
    IF ~HasTable(g.layoutResult)
    THEN [kind |-> "null"]
    ELSE [kind |-> "crossword",
          layout |-> g.layoutResult[1],
          entries |-> Slice(g.entries, Len(g.layoutResult[1].result)),
          metadata |-> [difficulty |-> g.difficulty,
                        num_words |-> Len(g.layoutResult[1].result)]]

\* The loop goes on, or generateCrossword returns
Proceed(g, broke) ==
    IF ~broke /\ LoopContinues(g) THEN g
    ELSE [g EXCEPT !.pc = "done", !.result = ReturnOf(g)]

\* generateCrossword without the test `motifs.length === 0`
StartGenerate_NoEmptyTest(options) ==
    /\ gen.pc = "idle"
    /\ \E motifs \in fetchMotifs([f \in DOMAIN options \cup {"limit"} |->
                                     IF f = "limit" THEN options.numWords * 3
                                     ELSE options[f]]) :
          LET entries == motifsToEntries(motifs)
              g == [pc |-> "loop", numWords |-> options.numWords,
                    difficulty |-> options.difficulty, entries |-> entries,
                    wordCount |-> options.numWords, attempt |-> 0,
                    layoutResult |-> <<>>, result |-> [kind |-> "none"]]
          IN  gen' = IF \E i \in 1..Len(entries) : entries[i].answer = TypeError
                     THEN [g EXCEPT !.pc = "done", !.result = [kind |-> "thrown"]]
                     ELSE Proceed(g, FALSE)
    /\ engineLog' = <<>>
    /\ UNCHANGED <<served, dbPuzzles, sessionVars, encVars, audioVars, valVars, mainVars, dbVars>>

\* generateCrossword(options) up to its first call of the engine
StartGenerate(options) ==
    /\ gen.pc = "idle"
    /\ \E motifs \in fetchMotifs([f \in DOMAIN options \cup {"limit"} |->
                                     IF f = "limit" THEN options.numWords * 3
                                     ELSE options[f]]) :
          LET entries == motifsToEntries(motifs)
              g == [pc |-> "loop", numWords |-> options.numWords,
                    difficulty |-> options.difficulty, entries |-> entries,
                    wordCount |-> options.numWords, attempt |-> 0,
                    layoutResult |-> <<>>, result |-> [kind |-> "none"]]
          IN  gen' = IF Len(motifs) = 0
                        \/ \E i \in 1..Len(entries) : entries[i].answer = TypeError
                     THEN [g EXCEPT !.pc = "done", !.result = [kind |-> "thrown"]]
                     ELSE Proceed(g, FALSE)
    /\ engineLog' = <<>>
    /\ UNCHANGED <<served, dbPuzzles, sessionVars, encVars, audioVars, valVars, mainVars, dbVars>>

\* One turn of the loop with an engine call that does what `call` says
LoopTurn(call) ==
    LET assigned == IF call.outcome = "throws" THEN gen.layoutResult
                    ELSE call.value
        broke == call.outcome # "throws" /\ HasTable(assigned)
        g == [gen EXCEPT !.attempt = @ + 1,
                         !.layoutResult = assigned,
                         !.wordCount = IF broke THEN @ ELSE @ - 1]
    IN  /\ gen' = Proceed(g, broke)
        /\ engineLog' = Append(engineLog,
                               [wordCount |-> gen.wordCount,
                                outcome |-> call.outcome])

\* One turn of the loop: the engine is called with the first wordCount entries
LayoutAttempt ==
    /\ gen.pc = "loop"
    /\ \E call \in generateLayout(Slice(gen.entries, gen.wordCount)) :
          LoopTurn(call)
    /\ UNCHANGED <<served, dbPuzzles, sessionVars, encVars, audioVars, valVars, mainVars, dbVars>>

\* The INSERT of saveCrossword
PuzzleRow(crossword, id) ==
    [id |-> id,
     layout |-> crossword.layout,
     motif_ids |-> [i \in 1..Len(crossword.entries) |->
                       crossword.entries[i].motif_id],
     difficulty |-> IF crossword.metadata.difficulty \in {<<>>, <<0>>} THEN 1
                    ELSE crossword.metadata.difficulty[1]]

\* main, for a crossword that is not null: saveCrossword(crossword)
saveCrossword ==
    /\ gen.pc = "done"
    /\ gen.result.kind = "crossword"
    /\ dbPuzzles' = Append(dbPuzzles, PuzzleRow(gen.result, Len(dbPuzzles) + 1))
    /\ gen' = [gen EXCEPT !.pc = "saved"]
    /\ UNCHANGED <<engineLog, served, sessionVars, encVars, audioVars, valVars, mainVars, dbVars>>

\* GET /api/puzzles/[id]: served holds the puzzle of the response, and after
\* it the results of reconciling it again
GET(id) ==
    /\ LET found == getPuzzle(id)
       IN  served' = IF found = <<>> THEN <<>> ELSE <<EnrichPuzzle(found[1])>>
    /\ UNCHANGED <<gen, engineLog, dbPuzzles, sessionVars, encVars, audioVars, valVars, mainVars, dbVars>>

GenInit ==
    /\ puzzleStore = [puzzle |-> <<>>, loading |-> FALSE, error |-> Null]
    /\ userInput = <<>>
    /\ activeClueIndex = NoIndex
    /\ activeCellPosition = NoCell
    /\ gridInitialized = FALSE
    /\ pageId = 0
    /\ storage = [id \in PageIds |-> <<>>]
    /\ fetching = <<>>
    /\ edits = 0
    /\ mounts = 0
    /\ dbPuzzles = <<>>
    /\ encIn = <<>>
    /\ encOut = <<>>
    /\ encOp = <<>>
    /\ gen = GenIdle
    /\ engineLog = <<>>
    /\ served = <<>>
    /\ audioStore = initialState
    /\ sounding = <<>>
    /\ passes = <<>>
    /\ main = MainIdle
    /\ motifsDb = DbIdle

GenNext ==
    \/ \E options \in GenOptions : StartGenerate(options)
    \/ LayoutAttempt
    \/ saveCrossword
    \/ \E id \in PageIds : GET(id)

SpecGen == GenInit /\ [][GenNext]_vars

----------------------------------------------------------------------------
(* The retry loop on its own.  What the loop does next depends on the     *)
(* engine's call only through its outcome and the presence of a table, so *)
(* the engine here places the first word or fails in one of its ways.     *)

FirstWordOnly(words) ==
    { [outcome |-> "throws", value |-> <<>>],
      [outcome |-> "nothing", value |-> <<>>],
      [outcome |-> "noGrid", value |-> << [result |-> <<>>] >>],
      [outcome |-> "grid",
       value |-> << LayoutOf(words,
                             { [i |-> 1, o |-> "across", x |-> 0, y |-> 0] },
                             "start") >>] }

LayoutAttemptOutcome ==
    /\ gen.pc = "loop"
    /\ \E call \in FirstWordOnly(Slice(gen.entries, gen.wordCount)) :
          LoopTurn(call)
    /\ UNCHANGED <<served, dbPuzzles, sessionVars, encVars, audioVars, valVars, mainVars, dbVars>>

LoopNext ==
    \/ \E options \in GenOptions : StartGenerate(options)
    \/ LayoutAttemptOutcome

\* The loop is straight-line code: a turn that can run does run
SpecLoop == GenInit /\ [][LoopNext]_vars /\ WF_vars(LayoutAttemptOutcome)

----------------------------------------------------------------------------
(* Reconciliation on its own: the stored puzzles with every entry written  *)
(* in each coordinate convention, served and reconciled again.             *)

\* Reconciliations of one response in a row
MaxReconciles == 2

StoredConventions == {"position", "start", "neither"}

\* Where a clue of StoredPuzzles lies, 0-based
FixturePosition(clue) ==
    IF "position" \in DOMAIN clue THEN clue.position
    ELSE [x |-> clue.startx - 1, y |-> clue.starty - 1]

\* The clue as a layout stores it under a convention
StoredAs(clue, convention) ==
    LET at == FixturePosition(clue)
        coordinates == CASE convention = "position" -> {"position"}
                         [] convention = "start" -> {"startx", "starty"}
                         [] OTHER -> {}
    IN  [f \in (DOMAIN clue \ {"position", "startx", "starty"}) \cup coordinates |->
            CASE f = "position" -> at
              [] f = "startx" -> at.x + 1
              [] f = "starty" -> at.y + 1
              [] OTHER -> clue[f]]

Restored(puzzle, conventions) ==
    [puzzle EXCEPT !.layout.result =
        [i \in 1..Len(puzzle.layout.result) |->
            StoredAs(puzzle.layout.result[i], conventions[i])]]

StoredChoices ==
    { <<Restored(StoredPuzzles[1], c1), Restored(StoredPuzzles[2], c2)>> :
      c1 \in [1..Len(StoredPuzzles[1].layout.result) -> StoredConventions],
      c2 \in [1..Len(StoredPuzzles[2].layout.result) -> StoredConventions] }

RecInit ==
    /\ puzzleStore = [puzzle |-> <<>>, loading |-> FALSE, error |-> Null]
    /\ userInput = <<>>
    /\ activeClueIndex = NoIndex
    /\ activeCellPosition = NoCell
    /\ gridInitialized = FALSE
    /\ pageId = 0
    /\ storage = [id \in PageIds |-> <<>>]
    /\ fetching = <<>>
    /\ edits = 0
    /\ mounts = 0
    /\ dbPuzzles \in StoredChoices
    /\ encIn = <<>>
    /\ encOut = <<>>
    /\ encOp = <<>>
    /\ gen = GenIdle
    /\ engineLog = <<>>
    /\ served = <<>>
    /\ audioStore = initialState
    /\ sounding = <<>>
    /\ passes = <<>>
    /\ main = MainIdle
    /\ motifsDb = DbIdle

\* The reconciliation of the handler applied to its own output
ReconcileAgain ==
    /\ served # <<>>
    /\ Len(served) < MaxReconciles
    /\ served' = Append(served, EnrichPuzzle(served[Len(served)]))
    /\ UNCHANGED <<gen, engineLog, dbPuzzles, sessionVars, encVars, audioVars, valVars, mainVars, dbVars>>

RecNext ==
    \/ \E id \in PageIds : GET(id)
    \/ ReconcileAgain

SpecRec == RecInit /\ [][RecNext]_vars

----------------------------------------------------------------------------
(* The generator and the reconciliation: properties *)

Failed(call) == call.outcome \in {"throws", "nothing", "noGrid"}

Returned == gen.pc \in {"done", "saved"}

\* C3: when the engine fails for k words (throws, returns nothing, or returns
\* a result without a grid), generateCrossword retries with k-1 words, for
\* every k from the target word count down to 5, and it reports failure only
\* after the 5-word attempt has failed.
C3_RetriesDownToFive ==
    /\ \A n \in 1..Len(engineLog) :
          (Failed(engineLog[n]) /\ engineLog[n].wordCount > 5) =>
              IF n < Len(engineLog)
              THEN engineLog[n + 1].wordCount = engineLog[n].wordCount - 1
              ELSE gen.pc = "loop" /\ gen.wordCount = engineLog[n].wordCount - 1
    /\ (Returned /\ gen.result.kind = "null" /\ gen.numWords >= 5) =>
          \E n \in 1..Len(engineLog) :
              engineLog[n].wordCount = 5 /\ Failed(engineLog[n])

\* The engine was called at most numWords - 5 + 1 times, and a call of
\* generateCrossword in which every engine call failed returned null
BoundedCalls ==
    gen.pc # "idle" =>
        /\ Len(engineLog) <= gen.numWords - 5 + 1
        /\ (Returned /\ gen.result.kind # "thrown"
              /\ \A n \in 1..Len(engineLog) : Failed(engineLog[n])) =>
                 gen.result.kind = "null"

\* C4: generateCrossword terminates whatever the candidates and the engine
\* do: the engine is called at most numWords - 5 + 1 times, the loop is left,
\* and when every call failed the caller gets null.
C4_Terminates ==
    /\ []BoundedCalls
    /\ (gen.pc = "loop") ~> Returned

\* Every call failed, the most calls possible were made, and null came back
C4_Witness ==
    /\ Returned
    /\ gen.result.kind = "null"
    /\ gen.numWords = 8
    /\ Len(engineLog) = 4
    /\ \A n \in 1..Len(engineLog) : Failed(engineLog[n])

MotifIdsOf(entries) == { entries[i].motif_id : i \in 1..Len(entries) }

\* C5: the entries of a returned crossword and the motif_ids of every
\* persisted puzzle are those of the entries of layout.result, no more and
\* no fewer.
C5_RecordsPlacedEntries ==
    /\ (Returned /\ gen.result.kind = "crossword") =>
          MotifIdsOf(gen.result.entries) = MotifIdsOf(gen.result.layout.result)
    /\ \A n \in 1..Len(dbPuzzles) :
          { dbPuzzles[n].motif_ids[i] : i \in 1..Len(dbPuzzles[n].motif_ids) }
              = MotifIdsOf(dbPuzzles[n].layout.result)

\* The cell <<row, col>> lies in the table and holds the character
TableHolds(theLayout, cell, char) ==
    /\ cell[1] \in 0..(theLayout.rows - 1)
    /\ cell[2] \in 0..(theLayout.cols - 1)
    /\ theLayout.table[cell[1] + 1][cell[2] + 1] = <<char>>

\* C6: for every entry of a served, assembled puzzle, the cells walked from
\* its reconciled position in its orientation lie inside the table and spell
\* its answer.
C6_WalkReproducesAnswer ==
    \A n \in 1..Len(served) :
        \A i \in 1..Len(served[n].layout.result) :
            LET clue == served[n].layout.result[i]
            IN  \A k \in 1..Len(clue.answer) :
                    TableHolds(served[n].layout, getClueCells(clue)[k],
                               clue.answer[k])

\* A served puzzle of two words, stored with 1-based startx/starty, one of
\* them away from the origin
C6_Witness ==
    /\ served # <<>>
    /\ gen.pc = "saved"
    /\ Len(served[1].layout.result) = 2
    /\ \E i \in 1..2 :
          /\ "startx" \in DOMAIN served[1].layout.result[i]
          /\ served[1].layout.result[i].position # [x |-> 0, y |-> 0]
          /\ served[1].layout.result[i].position
                = [x |-> served[1].layout.result[i].startx - 1,
                   y |-> served[1].layout.result[i].starty - 1]

\* Two different clues of the layout cover a common cell
SharesCell(theLayout) ==
    \E i, j \in 1..Len(theLayout.result) :
        /\ i # j
        /\ \E a \in 1..Len(theLayout.result[i].answer),
              b \in 1..Len(theLayout.result[j].answer) :
              getClueCells(theLayout.result[i])[a] = getClueCells(theLayout.result[j])[b]

\* C7: in every served puzzle, two entries whose cell paths share a cell have
\* the same answer character at that cell.
C7_SharedCellsAgree ==
    \A n \in 1..Len(served) :
        \A i, j \in 1..Len(served[n].layout.result) :
            LET first == served[n].layout.result[i]
                second == served[n].layout.result[j]
            IN  \A a \in 1..Len(first.answer), b \in 1..Len(second.answer) :
                    getClueCells(first)[a] = getClueCells(second)[b] =>
                        first.answer[a] = second.answer[b]

\* A served, assembled puzzle whose two entries cross
C7_Witness ==
    /\ served # <<>>
    /\ gen.pc = "saved"
    /\ SharesCell(served[1].layout)

\* The stored row a response was made from
StoredRow(puzzle) == getPuzzle(puzzle.id)[1]

\* C8: after the reconciliation of GET every entry has a position {x, y} with
\* 0 <= x < cols and 0 <= y < rows, whether the stored entry carried an
\* {x, y} position, 1-based startx/starty, or neither.
C8_PositionInRange ==
    \A n \in 1..Len(served) :
        \A i \in 1..Len(served[n].layout.result) :
            LET clue == served[n].layout.result[i]
            IN  /\ DOMAIN clue.position = {"x", "y"}
                /\ clue.position.x \in 0..(served[n].layout.cols - 1)
                /\ clue.position.y \in 0..(served[n].layout.rows - 1)

\* The crossing puzzle was served, one entry stored without coordinates and
\* the other with startx/starty in the last column
C8_Witness ==
    /\ Len(served) = 1
    /\ served[1].id = 2
    /\ DOMAIN StoredRow(served[1]).layout.result[1]
          \cap {"position", "startx", "starty"} = {}
    /\ "startx" \in DOMAIN StoredRow(served[1]).layout.result[2]
    /\ served[1].layout.result[2].position.x = served[1].layout.cols - 1

\* C9: reconciliation emits one canonical 0-based position for each entry:
\* {x: startx - 1, y: starty - 1} for an entry stored with 1-based
\* startx/starty, the stored position for an entry stored with {x, y}; and
\* reconciling a reconciled layout changes no position.
C9_CanonicalPosition ==
    /\ served # <<>> =>
          \A i \in 1..Len(served[1].layout.result) :
              LET stored == StoredRow(served[1]).layout.result[i]
                  position == served[1].layout.result[i].position
              IN  /\ "position" \in DOMAIN stored => position = stored.position
                  /\ ("position" \notin DOMAIN stored /\ "startx" \in DOMAIN stored) =>
                        position = [x |-> stored.startx - 1,
                                    y |-> stored.starty - 1]
    /\ \A n \in 2..Len(served) :
          \A i \in 1..Len(served[n].layout.result) :
              served[n].layout.result[i].position
                  = served[1].layout.result[i].position

\* The crossing puzzle, one entry stored with startx/starty and the other
\* with an {x, y} position away from the origin, was reconciled twice
C9_Witness ==
    /\ Len(served) = 2
    /\ served[1].id = 2
    /\ "startx" \in DOMAIN StoredRow(served[1]).layout.result[1]
    /\ "position" \in DOMAIN StoredRow(served[1]).layout.result[2]
    /\ StoredRow(served[1]).layout.result[2].position # [x |-> 0, y |-> 0]
    /\ served[2].layout.result[2].position
          = StoredRow(served[1]).layout.result[2].position

----------------------------------------------------------------------------
(* The two encoders: properties *)

\* The enharmonic pairs: the five of the tables and the further ones
EnharmonicPairs ==
    { << <<"C", "#">>, <<"D", "b">> >>, << <<"D", "#">>, <<"E", "b">> >>,
      << <<"F", "#">>, <<"G", "b">> >>, << <<"G", "#">>, <<"A", "b">> >>,
      << <<"A", "#">>, <<"B", "b">> >>, << <<"E", "#">>, <<"F">> >>,
      << <<"F", "b">>, <<"E">> >>, << <<"B", "#">>, <<"C">> >>,
      << <<"C", "b">>, <<"B">> >> }

\* The pitch class of a spelling, in semitones above C
Semitone(note) ==
    LET natural == CASE note[1] = "C" -> 0 [] note[1] = "D" -> 2
                     [] note[1] = "E" -> 4 [] note[1] = "F" -> 5
                     [] note[1] = "G" -> 7 [] note[1] = "A" -> 9
                     [] OTHER -> 11
        shift == IF Len(note) < 2 THEN 0
                 ELSE IF note[2] = "#" THEN 1 ELSE -1
    IN  (natural + shift + 12) % 12

Spellings == PitchNames \cup FurtherSpellings

\* The encoder applied to encIn, as an operator on the other spellings
EncoderApplied(note) ==
    IF encOp = <<"noteToLetter">> THEN noteToLetter(note)
    ELSE normalizePitch(note)

EncodedOnce == encOp = <<"noteToLetter">> \/ encOp = <<"normalizePitch">>

\* C11: in both encoders the two spellings of every enharmonic pair encode
\* to the same grid symbol, and no two spellings of distinct pitch classes
\* encode to the same symbol.
C11_EnharmonicsAgree ==
    (EncodedOnce /\ encIn \in Spellings) =>
        /\ \A pair \in EnharmonicPairs :
              pair[1] = encIn => encOut = EncoderApplied(pair[2])
        /\ \A other \in Spellings :
              Semitone(other) # Semitone(encIn) => EncoderApplied(other) # encOut

\* The pitch tokens of motifs: the 17 spellings, octave-free or octave-tagged
MotifTokens ==
    PitchNames \cup { note \o <<"4">> : note \in PitchNames }
    \cup { <<"D", "#", "5">> }

\* C12: for every pitch token of a motif noteToLetter and normalizePitch
\* return the same grid symbol.
C12_EncodersAgree ==
    /\ (encOp = <<"noteToLetter">> /\ encIn \in MotifTokens) =>
          encOut = normalizePitch(encIn)
    /\ (encOp = <<"normalizePitch">> /\ encIn \in MotifTokens) =>
          encOut = noteToLetter(encIn)

----------------------------------------------------------------------------
(* Audio: the AudioPlayer components of the puzzle page, one for each clue *)
(* of the clue lists and one for the active clue, and the preview of the   *)
(* add-melody page.  A melody sounds from its start until its promise      *)
(* resolves.                                                               *)

\* Melodies sounding together at most
MaxSounding == 2

\* The clueIndex props of the players
PlayerClues == {0, 1, 2}

\* The hintLevel arguments of play: the whole melody, 1 note, 3 notes
HintLevels == {-1, 1, 3}

\* stores/audio.ts
setPlaying(playing, clueIndex) ==
    [playing |-> playing,
     currentClueIndex |-> IF playing THEN clueIndex ELSE NoIndex]

\* $: isPlaying of the player with this clueIndex
isPlaying(clueIndex) ==
    audioStore.playing /\ audioStore.currentClueIndex = clueIndex

\* play(hintLevel) up to the await of the melody
play(clueIndex, hintLevel) ==
    /\ audioStore' = setPlaying(TRUE, clueIndex)
    /\ sounding' = Append(sounding, [by |-> "AudioPlayer",
                                     clueIndex |-> clueIndex,
                                     hintLevel |-> hintLevel])

\* handlePlay (hintLevel -1) and handleHint of the player with this clueIndex
handlePlay(clueIndex, hintLevel) ==
    /\ Len(sounding) < MaxSounding
    /\ IF ~isPlaying(clueIndex) THEN play(clueIndex, hintLevel)
       ELSE UNCHANGED audioVars
    /\ UNCHANGED <<sessionVars, dbPuzzles, encVars, genVars, valVars, mainVars, dbVars>>

\* previewMelody of the add-melody page
previewMelody ==
    /\ Len(sounding) < MaxSounding
    /\ sounding' = Append(sounding, [by |-> "previewMelody",
                                     clueIndex |-> NoIndex, hintLevel |-> -1])
    /\ UNCHANGED <<audioStore, sessionVars, dbPuzzles, encVars, genVars, valVars, mainVars, dbVars>>

Without(s, n) == SubSeq(s, 1, n - 1) \o SubSeq(s, n + 1, Len(s))

\* The melody started n-th of those sounding ends: the finally of play
MelodyEnds(n) ==
    /\ n \in 1..Len(sounding)
    /\ sounding' = Without(sounding, n)
    /\ audioStore' = IF sounding[n].by = "AudioPlayer"
                     THEN setPlaying(FALSE, NoIndex) ELSE audioStore
    /\ UNCHANGED <<sessionVars, dbPuzzles, encVars, genVars, valVars, mainVars, dbVars>>

AudioInit == Init

AudioNext ==
    \/ \E clueIndex \in PlayerClues, hintLevel \in HintLevels :
          handlePlay(clueIndex, hintLevel)
    \/ previewMelody
    \/ \E n \in 1..MaxSounding : MelodyEnds(n)

SpecAudio == AudioInit /\ [][AudioNext]_vars

\* C13: at most one melody plays at any time: a play or hint request made
\* while a melody is playing, for the same clue, for another clue or from
\* another player, starts nothing.
C13_OneMelodyAtATime == Len(sounding) <= 1

----------------------------------------------------------------------------
(* The solving session: the grid and the durable slots *)

\* The grid has the rows and columns of the layout
GridFits(grid, theLayout) ==
    /\ Len(grid) = theLayout.rows
    /\ \A r \in 1..Len(grid) : Len(grid[r]) = theLayout.cols

\* C14: once the session of a puzzle is Ready, the grid has exactly the rows
\* and columns of that puzzle, also when a session of another puzzle came
\* before it: it is never a grid made from the other puzzle's layout.
C14_GridOfShownPuzzle == PuzzleShown => GridFits(userInput, layout)

\* The session becomes Ready in this step
BecomesReady == ~PuzzleShown /\ PuzzleShown'

\* C15: the grid is saved to the puzzle's own slot on every teardown, and a
\* later session of the puzzle starts from the grid of that teardown: when
\* the session becomes Ready and the puzzle's slot holds a grid, the grid of
\* the session is the grid of the slot.
C15_ResumesTeardownGrid ==
    [][ /\ (pageId # 0 /\ pageId' = 0 /\ puzzleStore.puzzle # <<>>) =>
              storage'[pageId] = <<JsonRoundTrip(userInput)>>
        /\ (BecomesReady /\ storage[pageId] # <<>>) =>
              userInput' = storage[pageId][1] ]_vars

----------------------------------------------------------------------------
(* The solving session: the derived stores *)

\* The entries, numbered from 1, whose walked cells all hold their character
CorrectEntries ==
    {i \in 1..Len(clues) : /\ EveryCellFilled(clues[i], userInput)
                           /\ EveryCellMatches(clues[i], userInput)}

\* Math.round((correct / total) * 100), 0 without entries
PercentOf(correct, total) ==
    IF total = 0 THEN 0 ELSE (200 * correct + total) \div (2 * total)

\* A slot of localStorage holds at most one grid and nothing else
SlotHoldsGridOnly(slot) ==
    /\ Len(slot) <= 1
    /\ \A n \in 1..Len(slot) : \A r \in 1..Len(slot[n]) :
          \A c \in 1..Len(slot[n][r]) :
             slot[n][r][c] \in {Null} \cup GridLetters

\* C16: in every state of the session the validation map and the completion
\* status are the values recomputed from the current grid and the layout of
\* the current puzzle; a durable slot holds cells only, so after a restore
\* the status comes from the restored cells.
C16_DerivedFromGrid ==
    /\ puzzleStore.puzzle = <<>> =>
          /\ validation = <<>>
          /\ completionStatus =
                [solved |-> 0, total |-> 0, percentage |-> 0, isComplete |-> FALSE]
    /\ puzzleStore.puzzle # <<>> =>
          LET results == validation
              correct == CorrectEntries
          IN  /\ DOMAIN results = 0..(Len(clues) - 1)
              /\ \A i \in 1..Len(clues) : results[i - 1] <=> i \in correct
              /\ completionStatus =
                    [solved |-> Cardinality(correct),
                     total |-> Len(clues),
                     percentage |-> PercentOf(Cardinality(correct), Len(clues)),
                     isComplete |-> Cardinality(correct) = Len(clues)]
    /\ \A id \in PageIds : SlotHoldsGridOnly(storage[id])

\* A solved puzzle was left and opened again: the restored grid is complete
C16_Witness ==
    /\ mounts = 2
    /\ ShowsPuzzle(2)
    /\ storage[2] # <<>>
    /\ userInput = storage[2][1]
    /\ completionStatus.isComplete

\* A stored puzzle has been opened and is on display with its fresh grid
SolveInit ==
    \E n \in 1..Len(StoredPuzzles) :
       LET puzzle == EnrichPuzzle(StoredPuzzles[n])
       IN  /\ puzzleStore = [puzzle |-> <<puzzle>>, loading |-> FALSE, error |-> Null]
           /\ userInput = initializeGrid(puzzle.layout.rows, puzzle.layout.cols,
                                         puzzle.layout.result)
           /\ activeClueIndex = NoIndex
           /\ activeCellPosition = NoCell
           /\ gridInitialized = TRUE
           /\ pageId = puzzle.id
           /\ storage = [id \in PageIds |-> <<>>]
           /\ fetching = <<>>
           /\ edits = 0
           /\ mounts = 1
           /\ dbPuzzles = StoredPuzzles
           /\ encIn = <<>>
           /\ encOut = <<>>
           /\ encOp = <<>>
           /\ gen = GenIdle
           /\ engineLog = <<>>
           /\ served = <<>>
           /\ audioStore = initialState
           /\ sounding = <<>>
           /\ passes = <<>>
           /\ main = MainIdle
           /\ motifsDb = DbIdle

\* The user solves the puzzle on display: clicks, notes, deletions, Clear
SolveNext ==
    \/ handleClearPuzzle /\ UNCHANGED <<encVars, genVars, audioVars, valVars, mainVars, dbVars>>
    \/ \E row \in 0..1, col \in 0..3 :
          /\ row < layout.rows /\ col < layout.cols
          /\ handleCellClick(row, col)
          /\ UNCHANGED <<encVars, genVars, audioVars, valVars, mainVars, dbVars>>
    \/ \E note \in Palette :
          selectNote(note) /\ UNCHANGED <<encVars, genVars, audioVars, valVars, mainVars, dbVars>>
    \/ handleBackspace /\ UNCHANGED <<encVars, genVars, audioVars, valVars, mainVars, dbVars>>

SpecSolve == SolveInit /\ [][SolveNext]_vars

\* The cell (row, col) lies on an entry of the puzzle
OnAnEntry(row, col) == findCluesAtCell(clues, row, col) # <<>>

\* This step empties the cell (row, col), which held a symbol
ClearsCell(row, col) ==
    /\ HasRow(userInput, row)
    /\ CellAt(userInput, row, col) \notin {Null, Undefined, <<>>}
    /\ userInput' = SetCell(userInput, row, col, Null)
    /\ puzzleStore' = puzzleStore

\* This step writes the symbol of the solution into the empty cell (row, col)
EntersCorrectSymbol(row, col) ==
    /\ HasRow(userInput, row)
    /\ CellAt(userInput, row, col) = Null
    /\ userInput' = SetCell(userInput, row, col, layout.table[row + 1][col + 1])
    /\ puzzleStore' = puzzleStore

\* Every entry is correct on the grid `grid`
AllEntriesCorrect(grid) ==
    \A i \in 1..Len(clues) : /\ EveryCellFilled(clues[i], grid)
                             /\ EveryCellMatches(clues[i], grid)

\* On the puzzle view, isComplete holds exactly when every entry of the
\* validation map is true
CompleteIffAllValidate ==
    PuzzleShown =>
       LET results == validation
       IN  completionStatus.isComplete <=>
              \A index \in DOMAIN results : results[index]

\* C17: before and after every step of the solver the puzzle is Complete
\* exactly when every entry validates correct, and Complete is not sticky:
\* emptying a cell of an entry of a Complete puzzle makes isComplete false,
\* and writing the correct symbol into the one cell a puzzle is short of
\* being solved makes it true again.
C17_CompleteNotSticky ==
    [][/\ CompleteIffAllValidate
       /\ CompleteIffAllValidate'
       /\ (userInput' # userInput /\ puzzleStore' = puzzleStore) =>
             \A row \in 0..(layout.rows - 1), col \in 0..(layout.cols - 1) :
                /\ (/\ ClearsCell(row, col)
                    /\ OnAnEntry(row, col)
                    /\ completionStatus.isComplete) =>
                      ~completionStatus.isComplete'
                /\ (/\ EntersCorrectSymbol(row, col)
                    /\ OnAnEntry(row, col)
                    /\ AllEntriesCorrect(userInput')) =>
                      completionStatus.isComplete']_vars

\* The last cell of the solved puzzle 2 has been emptied again
C17_Witness ==
    /\ ShowsPuzzle(2)
    /\ edits = 3
    /\ activeCellPosition = [row |-> 1, col |-> 1]
    /\ userInput = << << <<"F">>, <<"J">> >>, << Null, Null >> >>
    /\ ~completionStatus.isComplete

----------------------------------------------------------------------------
(* The store functions on puzzles of several entries *)

\* Entries of the widest puzzle
MaxEntries == 8

\* A stored puzzle of n down entries "JE" side by side
ColumnPuzzle(n) ==
    [id |-> 1,
     layout |-> [rows |-> 2, cols |-> n,
                 table |-> << [c \in 1..n |-> <<"J">>], [c \in 1..n |-> <<"E">>] >>,
                 result |-> [i \in 1..n |->
                               [clue |-> <<"m", "3">>, answer |-> <<"J", "E">>,
                                orientation |-> "down", motif_id |-> 3,
                                position |-> [x |-> i - 1, y |-> 0]]]],
     motif_ids |-> <<3>>, difficulty |-> 1]

\* setCellValue(row, col, value)
setCellValue(row, col, value) ==
    /\ userInput' = SetCell(userInput, row, col, value)
    /\ UNCHANGED <<puzzleStore, activeClueIndex, activeCellPosition,
                   gridInitialized, pageId, storage, fetching, edits, mounts,
                   dbPuzzles, encVars, genVars, audioVars, valVars, mainVars, dbVars>>

\* clearCell(row, col)
clearCell(row, col) == setCellValue(row, col, Null)

\* The page shows a served puzzle with its fresh grid
StoreInit ==
    \E n \in 1..MaxEntries :
       LET puzzle == EnrichPuzzle(ColumnPuzzle(n))
       IN  /\ puzzleStore = [puzzle |-> <<puzzle>>, loading |-> FALSE, error |-> Null]
           /\ userInput = initializeGrid(puzzle.layout.rows, puzzle.layout.cols,
                                         puzzle.layout.result)
           /\ activeClueIndex = NoIndex
           /\ activeCellPosition = NoCell
           /\ gridInitialized = TRUE
           /\ pageId = 1
           /\ storage = [id \in PageIds |-> <<>>]
           /\ fetching = <<>>
           /\ edits = 0
           /\ mounts = 1
           /\ dbPuzzles = <<ColumnPuzzle(n)>>
           /\ encIn = <<>>
           /\ encOut = <<>>
           /\ encOp = <<>>
           /\ gen = GenIdle
           /\ engineLog = <<>>
           /\ served = <<>>
           /\ audioStore = initialState
           /\ sounding = <<>>
           /\ passes = <<>>
           /\ main = MainIdle
           /\ motifsDb = DbIdle

\* The cells below the first notes are written and emptied
StoreNext ==
    \/ \E col \in 0..(MaxEntries - 1), value \in {<<"E">>, <<"J">>} :
          /\ col < layout.cols
          /\ setCellValue(1, col, value)
    \/ \E col \in 0..(MaxEntries - 1) :
          /\ col < layout.cols
          /\ clearCell(1, col)

SpecStore == StoreInit /\ [][StoreNext]_vars

C18_WitnessComplete ==
    /\ PuzzleShown
    /\ Len(clues) = 8
    /\ Cardinality(CorrectEntries) = 8
    /\ completionStatus.percentage = 100
    /\ completionStatus.isComplete

----------------------------------------------------------------------------
(* The solving session: single-cell edits *)

\* C19: completion is monotone in single-cell edits: a step that fills an
\* empty cell with the symbol of the solution never decreases the
\* percentage, and a step that empties a cell never increases it.
C19_MonotoneInCellEdits ==
    [][(PuzzleShown /\ userInput' # userInput /\ puzzleStore' = puzzleStore) =>
          \A row \in 0..(layout.rows - 1), col \in 0..(layout.cols - 1) :
             /\ EntersCorrectSymbol(row, col) =>
                   completionStatus.percentage' >= completionStatus.percentage
             /\ ClearsCell(row, col) =>
                   completionStatus.percentage' <= completionStatus.percentage]_vars

\* Puzzle 2, half solved by its first notes, was solved by entering E
C19_Witness ==
    /\ ShowsPuzzle(2)
    /\ mounts = 1
    /\ edits = 2
    /\ userInput = << << <<"F">>, <<"J">> >>, << Null, <<"E">> >> >>
    /\ completionStatus.percentage = 100

----------------------------------------------------------------------------
(* validation.ts: the validation pass, run again on the same grid *)

\* validateGrid calls in one behaviour
MaxPasses == 2

\* What a cell of a grid under validation holds
CellValues == {Null, <<"J">>, <<"F">>, <<"E">>}

\* The grids of the puzzle's rows and columns
GridsOf(puzzle) ==
    [1..puzzle.layout.rows -> [1..puzzle.layout.cols -> CellValues]]

\* A served puzzle and a grid of its shape, nothing validated yet
ValInit ==
    \E n \in 1..Len(StoredPuzzles) :
       LET puzzle == EnrichPuzzle(StoredPuzzles[n])
       IN  /\ puzzleStore = [puzzle |-> <<puzzle>>, loading |-> FALSE, error |-> Null]
           /\ userInput \in GridsOf(puzzle)
           /\ activeClueIndex = NoIndex
           /\ activeCellPosition = NoCell
           /\ gridInitialized = TRUE
           /\ pageId = puzzle.id
           /\ storage = [id \in PageIds |-> <<>>]
           /\ fetching = <<>>
           /\ edits = 0
           /\ mounts = 1
           /\ dbPuzzles = StoredPuzzles
           /\ encIn = <<>>
           /\ encOut = <<>>
           /\ encOp = <<>>
           /\ gen = GenIdle
           /\ engineLog = <<>>
           /\ served = <<>>
           /\ audioStore = initialState
           /\ sounding = <<>>
           /\ passes = <<>>
           /\ main = MainIdle
           /\ motifsDb = DbIdle

\* The clue after a walk that steps the clue's own position instead of the
\* copies x and y
AdvancedClue(clue) ==
    [clue EXCEPT !.position =
        IF clue.orientation = "across"
        THEN [x |-> clue.position.x + Len(clue.answer), y |-> clue.position.y]
        ELSE [x |-> clue.position.x, y |-> clue.position.y + Len(clue.answer)]]

\* A validation pass whose walks step the positions of the clues themselves
ValidationPass_StepsThePositions ==
    /\ Len(passes) < MaxPasses
    /\ passes' = Append(passes, validateGrid(clues, userInput))
    /\ puzzleStore' = [puzzleStore EXCEPT !.puzzle[1].layout.result =
                          [i \in 1..Len(clues) |-> AdvancedClue(clues[i])]]
    /\ UNCHANGED <<userInput, activeClueIndex, activeCellPosition,
                   gridInitialized, pageId, storage, fetching, edits, mounts,
                   dbPuzzles, encVars, genVars, audioVars, mainVars, dbVars>>

\* validateGrid(clues, grid) is called: it builds a new Map and reads the
\* clues and the grid; the walks step the local copies x and y
ValidationPass ==
    /\ Len(passes) < MaxPasses
    /\ passes' = Append(passes, validateGrid(clues, userInput))
    /\ UNCHANGED <<sessionVars, dbPuzzles, encVars, genVars, audioVars, mainVars, dbVars>>

ValNext == ValidationPass

SpecVal == ValInit /\ [][ValNext]_vars

----------------------------------------------------------------------------
(* validation.ts on entries and grids that are not well formed *)

\* Entries of a layout under validation
MaxClues == 2

\* A well-formed entry and entries with a field missing or a position off
\* the grid
MalformedEntries ==
    { [answer |-> <<"J", "J">>, orientation |-> "across",
       position |-> [x |-> 0, y |-> 0]],
      [answer |-> <<"J", "J">>, orientation |-> "across"],
      [orientation |-> "across", position |-> [x |-> 0, y |-> 0]],
      [answer |-> <<"J", "J">>, orientation |-> "across",
       position |-> [x |-> -1, y |-> 0]],
      [answer |-> <<"J", "J">>, orientation |-> "down",
       position |-> [x |-> 0, y |-> -1]],
      [answer |-> <<"J", "J">>, orientation |-> "down",
       position |-> [x |-> 5, y |-> 5]] }

\* An uninitialised grid, full and partly filled grids, and ragged grids
UnevenGrids ==
    { <<>>,
      << << <<"J">>, <<"J">> >> >>,
      << << <<"J">>, Null >> >>,
      << << <<"J">> >>, << <<"J">>, <<"J">> >> >>,
      << << <<"J">>, <<"J">> >>, << <<"J">> >> >>,
      << << <<"J">>, <<"J">> >>, << <<"J">>, <<"E">> >> >> }

\* `let { x, y } = position` throws without a position; answer.length, read
\* once the grid has passed the initialisation test, throws without an answer
WalkThrows(clue, grid) ==
    \/ "position" \notin DOMAIN clue
    \/ Len(grid) > 0 /\ "answer" \notin DOMAIN clue

\* How a call ends: with a value, or with a TypeError thrown
Value(v) == [thrown |-> FALSE, value |-> v]
ThrownTypeError == [thrown |-> TRUE]

\* What a call of isWordFilled comes to
isWordFilledResult(clue, grid) ==
    IF WalkThrows(clue, grid) THEN ThrownTypeError
    ELSE Value(isWordFilled(clue, grid))

\* What a call of isWordCorrect comes to
isWordCorrectResult(clue, grid) ==
    IF WalkThrows(clue, grid) THEN ThrownTypeError
    ELSE Value(isWordCorrect(clue, grid))

\* What a call of validateGrid comes to: on an uninitialised grid no entry is
\* walked, else the first walk that throws ends the call
validateGridResult(clueList, grid) ==
    IF Len(grid) = 0
    THEN Value([index \in 0..(Len(clueList) - 1) |-> FALSE])
    ELSE IF \E i \in 1..Len(clueList) : WalkThrows(clueList[i], grid)
    THEN ThrownTypeError
    ELSE Value(validateGrid(clueList, grid))

\* What a call of getCompletionPercentage comes to
getCompletionPercentageResult(clueList, grid) ==
    IF Len(clueList) = 0 THEN Value(0)
    ELSE LET results == validateGridResult(clueList, grid)
         IN  IF results.thrown THEN ThrownTypeError
             ELSE Value(RoundPercent(
                     Cardinality({i \in DOMAIN results.value : results.value[i]}),
                     Len(clueList)))

\* The variables of the other parts, at rest
ElsewhereIdle ==
    /\ activeClueIndex = NoIndex
    /\ activeCellPosition = NoCell
    /\ gridInitialized = TRUE
    /\ pageId = 1
    /\ storage = [id \in PageIds |-> <<>>]
    /\ fetching = <<>>
    /\ edits = 0
    /\ mounts = 1
    /\ dbPuzzles = <<>>
    /\ encIn = <<>>
    /\ encOut = <<>>
    /\ encOp = <<>>
    /\ gen = GenIdle
    /\ engineLog = <<>>
    /\ served = <<>>
    /\ audioStore = initialState
    /\ sounding = <<>>
    /\ main = MainIdle
    /\ motifsDb = DbIdle

\* A layout of one or two of the entries and one of the grids
MalInit ==
    /\ \E n \in 1..MaxClues : \E result \in [1..n -> MalformedEntries] :
          puzzleStore = [puzzle |-> << [id |-> 1,
                                       layout |-> [rows |-> 1, cols |-> 2,
                                                   result |-> result]] >>,
                         loading |-> FALSE, error |-> Null]
    /\ userInput \in UnevenGrids
    /\ passes = <<>>
    /\ main = MainIdle
    /\ motifsDb = DbIdle
    /\ ElsewhereIdle

\* The four functions are called on the first entry, the layout and the grid
ValidateMalformed ==
    /\ passes = <<>>
    /\ main = MainIdle
    /\ motifsDb = DbIdle
    /\ passes' = << [filled |-> isWordFilledResult(clues[1], userInput),
                     correct |-> isWordCorrectResult(clues[1], userInput),
                     results |-> validateGridResult(clues, userInput),
                     percentage |-> getCompletionPercentageResult(clues, userInput)] >>
    /\ UNCHANGED <<sessionVars, dbPuzzles, encVars, genVars, audioVars, mainVars, dbVars>>

MalNext == ValidateMalformed

SpecMal == MalInit /\ [][MalNext]_vars

\* C21: in-UI validation never throws: for an entry without position or
\* answer, with a position off the grid or negative, on an uninitialised or
\* ragged grid, isWordFilled, isWordCorrect, validateGrid and
\* getCompletionPercentage return a value.
C21_ValidationNeverThrows ==
    \A n \in 1..Len(passes) :
       /\ ~passes[n].filled.thrown
       /\ ~passes[n].correct.thrown
       /\ ~passes[n].results.thrown
       /\ ~passes[n].percentage.thrown

----------------------------------------------------------------------------
(* generate_crosswords.js: the failures of generateCrossword *)

\* generateCrossword has fetched its candidates
Fetched == gen.pc # "idle"

\* C22: with fewer than 5 candidate words generateCrossword fails at once
\* and the engine is never called.
C22_FewCandidatesNoEngine ==
    (Fetched /\ Len(gen.entries) < 5) =>
       /\ engineLog = <<>>
       /\ gen.pc = "done" => gen.result.kind \in {"null", "thrown"}

\* C23: when the selection is empty, generateCrossword throws to its caller:
\* the engine has not been called and no puzzle is persisted.
C23_EmptySelectionThrows ==
    (Fetched /\ gen.entries = <<>>) =>
       /\ gen.pc = "done"
       /\ gen.result.kind = "thrown"
       /\ engineLog = <<>>
       /\ dbPuzzles = <<>>

\* No motif has a recognition score of 11: the call has thrown
C23_Witness ==
    /\ Fetched
    /\ gen.entries = <<>>
    /\ gen.result.kind = "thrown"

----------------------------------------------------------------------------
(* generate_crosswords.js: main *)

\* The crosswords main asks for: `for (let i = 1; i <= 3; i++)`
MainCrosswords == 3

\* The id of the source 'Curated Popular Songs' in the motif table
CuratedSourceId == 1

\* The options of the i-th call of generateCrossword.  The lengths are those
\* of main scaled to the short motifs of the table: 7..12 for the first two
\* crosswords becomes 3..12, 6..15 for the third becomes 2..15.
MainOptions(i, usedMotifIds) ==
    [numWords |-> 10,
     minLength |-> IF i <= 2 THEN 3 ELSE 2,
     maxLength |-> IF i <= 2 THEN 12 ELSE 15,
     difficulty |-> <<1>>,
     minRecognition |-> <<6>>,
     sourceId |-> <<CuratedSourceId>>,
     excludeMotifIds |-> usedMotifIds]

\* usedMotifIds.add(id) for the ids in order: a Set keeps insertion order
RECURSIVE AddAll(_, _)
AddAll(used, ids) ==
    IF ids = <<>> THEN used
    ELSE AddAll(IF InSeq(ids[1], used) THEN used ELSE Append(used, ids[1]),
                Tail(ids))

\* main starts: the source row is looked up; without it main throws, and the
\* catch prints the error and exits with status 1
MainStart ==
    /\ main.pc = "idle"
    /\ \E sourceRow \in BOOLEAN :
          main' = IF sourceRow
                  THEN [pc |-> "loop", i |-> 1, usedMotifIds |-> <<>>,
                        results |-> <<>>, outcomes |-> <<>>, errors |-> 0,
                        success |-> FALSE, exitCode |-> <<>>]
                  ELSE [pc |-> "exited", i |-> 1, usedMotifIds |-> <<>>,
                        results |-> <<>>, outcomes |-> <<>>, errors |-> 1,
                        success |-> FALSE, exitCode |-> <<1>>]
    /\ UNCHANGED <<sessionVars, dbPuzzles, encVars, genVars, audioVars, valVars, dbVars>>

\* The i-th call of generateCrossword begins
MainCall ==
    /\ main.pc = "loop"
    /\ main.i <= MainCrosswords
    /\ StartGenerate(MainOptions(main.i, main.usedMotifIds))

\* generateCrossword has returned or thrown.  A throw reaches the catch of
\* main; null (after the console.error of generateCrossword) is skipped by
\* `if (crossword)`; a crossword is saved and its entries are tracked
MainAfterCall ==
    /\ main.pc = "loop"
    /\ gen.pc = "done"
    /\ gen' = GenIdle
    /\ LET kind == gen.result.kind
           outcomes == Append(main.outcomes, kind)
       IN  CASE kind = "thrown" ->
                  /\ main' = [main EXCEPT !.pc = "exited", !.outcomes = outcomes,
                                          !.errors = @ + 1, !.exitCode = <<1>>]
                  /\ UNCHANGED dbPuzzles
             [] kind = "null" ->
                  /\ main' = [main EXCEPT !.i = @ + 1, !.outcomes = outcomes,
                                          !.errors = @ + 1]
                  /\ UNCHANGED dbPuzzles
             [] OTHER ->
                  LET puzzleId == Len(dbPuzzles) + 1
                  IN  /\ dbPuzzles' = Append(dbPuzzles, PuzzleRow(gen.result, puzzleId))
                      /\ main' = [main EXCEPT
                                    !.i = @ + 1, !.outcomes = outcomes,
                                    !.results = Append(@, puzzleId),
                                    !.usedMotifIds =
                                       AddAll(@, [n \in 1..Len(gen.result.entries) |->
                                                    gen.result.entries[n].motif_id])]
    /\ UNCHANGED <<engineLog, served, sessionVars, encVars, audioVars, valVars, dbVars>>

\* After the loop: the summary with 'ALL CROSSWORDS GENERATED SUCCESSFULLY!';
\* main returns and the process ends with status 0
MainSummary ==
    /\ main.pc = "loop"
    /\ main.i > MainCrosswords
    /\ main' = [main EXCEPT !.pc = "exited", !.success = TRUE, !.exitCode = <<0>>]
    /\ UNCHANGED <<sessionVars, dbPuzzles, encVars, genVars, audioVars, valVars, dbVars>>

MainNext ==
    \/ MainStart
    \/ MainCall
    \/ LayoutAttempt
    \/ MainAfterCall
    \/ MainSummary

SpecMain == GenInit /\ [][MainNext]_vars

\* An assembly of this run has failed
AssemblyFailed == \E n \in 1..Len(main.outcomes) : main.outcomes[n] \in {"thrown", "null"}

\* C24: whenever the assembly of a puzzle fails, for want of candidates or
\* because the engine places no attempted word count, main prints an error
\* and the process exits with a non-zero status: a run in which an assembly
\* failed never ends with the success report and status 0.
C24_FailureExitsNonZero ==
    (main.pc = "exited" /\ AssemblyFailed) =>
       /\ main.errors > 0
       /\ main.exitCode = <<1>>
       /\ ~main.success

\* C25: an invocation of main that does not fail, one that ends with the
\* success report and status 0, has persisted exactly one puzzle.
C25_OnePuzzlePerInvocation ==
    (main.pc = "exited" /\ main.exitCode = <<0>>) => Len(dbPuzzles) = 1

\* The motifs the engine placed in the n-th puzzle of the run
PlacedIn(n) == MotifIdsOf(dbPuzzles[n].layout.result)

\* C26: within one run of main every motif placed in an earlier puzzle is in
\* the exclusion set of every later selection, and no motif is placed in two
\* puzzles of the run.
C26_PlacedMotifsExcluded ==
    /\ \A n \in 1..Len(dbPuzzles) :
          \A id \in PlacedIn(n) : InSeq(id, main.usedMotifIds)
    /\ \A m, n \in 1..Len(dbPuzzles) :
          m < n => PlacedIn(m) \cap PlacedIn(n) = {}

----------------------------------------------------------------------------
(* generate_crosswords.js: fetchMotifs on its own *)

\* The largest LIMIT of the queries tried
MaxLimit == 3

\* The option records fetchMotifs is called with; <<>> is a filter left null
FetchOptions ==
    [minLength : {2, 3}, maxLength : {3, 12}, limit : 0..MaxLimit,
     difficulty : {<<>>, <<1>>}, minRecognition : {<<>>, <<9>>, <<11>>},
     sourceId : {<<>>, <<1>>},
     excludeMotifIds : {<<>>, <<2>>, <<1, 4>>}]

FetchInit ==
    /\ puzzleStore = [puzzle |-> <<>>, loading |-> FALSE, error |-> Null]
    /\ userInput = <<>>
    /\ activeClueIndex = NoIndex
    /\ activeCellPosition = NoCell
    /\ gridInitialized = FALSE
    /\ pageId = 0
    /\ storage = [id \in PageIds |-> <<>>]
    /\ fetching = <<>>
    /\ edits = 0
    /\ mounts = 0
    /\ dbPuzzles = <<>>
    /\ encIn = <<>>
    /\ encOut = <<>>
    /\ encOp = <<>>
    /\ engineLog = <<>>
    /\ served = <<>>
    /\ audioStore = initialState
    /\ sounding = <<>>
    /\ passes = <<>>
    /\ main = MainIdle
    /\ motifsDb = DbIdle
    /\ \E options \in FetchOptions : gen = [pc |-> "query", options |-> options]

\* await fetchMotifs(options): the rows db.all returns
FetchMotifs ==
    /\ gen.pc = "query"
    /\ \E motifs \in fetchMotifs(gen.options) :
          gen' = [pc |-> "fetched", options |-> gen.options, motifs |-> motifs]
    /\ UNCHANGED <<engineLog, served, dbPuzzles, sessionVars, encVars, audioVars,
                   valVars, mainVars, dbVars>>

FetchNext == FetchMotifs

SpecFetch == FetchInit /\ [][FetchNext]_vars

Range(s) == { s[i] : i \in 1..Len(s) }

\* The row passes every filter the options supply
Qualifies(row, options) ==
    /\ options.minLength <= row.length
    /\ row.length <= options.maxLength
    /\ \A score \in Range(options.minRecognition) : row.recognition_score >= score
    /\ \A source \in Range(options.sourceId) : row.source_id = source
    /\ \A level \in Range(options.difficulty) : row.difficulty = level
    /\ row.id \notin Range(options.excludeMotifIds)

\* C27: fetchMotifs returns at most limit motifs, each passing every filter
\* supplied, in non-increasing recognition_score order, leaving out no
\* qualifying motif of a strictly higher score than one returned; when no
\* motif qualifies it returns the empty list.
C27_FetchMotifsContract ==
    gen.pc = "fetched" =>
       LET motifs == gen.motifs
           options == gen.options
           qualifying == { row \in Range(MotifTable) : Qualifies(row, options) }
       IN  /\ Len(motifs) <= options.limit
           /\ \A n \in 1..Len(motifs) : motifs[n] \in qualifying
           /\ \A n \in 1..(Len(motifs) - 1) :
                 motifs[n].recognition_score >= motifs[n + 1].recognition_score
           /\ \A row \in qualifying \ Range(motifs) :
                 \A n \in 1..Len(motifs) :
                    row.recognition_score <= motifs[n].recognition_score
           /\ (qualifying = {} => motifs = <<>>)

\* A query cut by its limit, with an exclusion that removed a motif
C27_Witness ==
    /\ gen.pc = "fetched"
    /\ gen.options.limit = 2 /\ Len(gen.motifs) = 2
    /\ gen.options.excludeMotifIds = <<1, 4>>
    /\ gen.motifs[1].recognition_score = 9

\* No motif has recognition 11: the empty list
C27_WitnessEmpty ==
    /\ gen.pc = "fetched"
    /\ gen.options.minRecognition = <<11>>
    /\ gen.options.limit > 0
    /\ gen.motifs = <<>>

----------------------------------------------------------------------------
(* generate_crosswords.js: normalizePitch on tokens that are no note *)

\* C28: a pitch token outside the 12 pitch classes (an unknown name, the
\* empty token a double space leaves, digits only) is never fatal:
\* normalizePitch returns a fallback symbol of one character.
C28_InvalidTokenNotFatal ==
    (encOp = <<"normalizePitch">> /\ pitchMap(StripTrailingDigits(encIn)) = Undefined) =>
       /\ encOut # TypeError
       /\ Len(encOut) = 1

----------------------------------------------------------------------------
(* Puzzles with an entry whose motif is not found *)

\* The stored puzzles with motifs missing: in the first the motif of the only
\* entry is in no row of the motif table; in the second the id of the second
\* entry's motif is missing from the motif_ids column
UnmatchedPuzzles ==
    << [StoredPuzzles[1] EXCEPT !.layout.result[1].motif_id = 9,
                                !.motif_ids = <<9>>],
       [StoredPuzzles[2] EXCEPT !.motif_ids = <<2>>] >>

UnmatchedInit ==
    /\ puzzleStore = [puzzle |-> <<>>, loading |-> FALSE, error |-> Null]
    /\ userInput = <<>>
    /\ activeClueIndex = NoIndex
    /\ activeCellPosition = NoCell
    /\ gridInitialized = FALSE
    /\ pageId = 0
    /\ storage = [id \in PageIds |-> <<>>]
    /\ fetching = <<>>
    /\ edits = 0
    /\ mounts = 0
    /\ dbPuzzles = UnmatchedPuzzles
    /\ encIn = <<>>
    /\ encOut = <<>>
    /\ encOp = <<>>
    /\ gen = GenIdle
    /\ engineLog = <<>>
    /\ served = <<>>
    /\ audioStore = initialState
    /\ sounding = <<>>
    /\ passes = <<>>
    /\ main = MainIdle
    /\ motifsDb = DbIdle

\* The page is opened once and the puzzle is worked on
UnmatchedNext ==
    \/ \E id \in PageIds :
          /\ mounts = 0
          /\ Mount(id)
          /\ UNCHANGED <<encVars, genVars, audioVars, valVars, mainVars, dbVars>>
    \/ FetchDone /\ UNCHANGED <<encVars, genVars, audioVars, valVars, mainVars, dbVars>>
    \/ handleClearPuzzle /\ UNCHANGED <<encVars, genVars, audioVars, valVars, mainVars, dbVars>>
    \/ \E row \in 0..1, col \in 0..3 :
          /\ PuzzleShown
          /\ row < layout.rows /\ col < layout.cols
          /\ handleCellClick(row, col)
          /\ UNCHANGED <<encVars, genVars, audioVars, valVars, mainVars, dbVars>>
    \/ \E note \in Palette :
          selectNote(note) /\ UNCHANGED <<encVars, genVars, audioVars, valVars, mainVars, dbVars>>
    \/ handleBackspace /\ UNCHANGED <<encVars, genVars, audioVars, valVars, mainVars, dbVars>>

SpecUnmatched == UnmatchedInit /\ [][UnmatchedNext]_vars

\* {#if currentClue.motif?.pitch_sequence}: the page shows the entry's player
AudioPlayerShown(clue) ==
    clue.motif # <<>> /\ Truthy(clue.motif[1].pitch_sequence)

\* The motif of the stored entry is a row of the table named in motif_ids
HasMotifRow(row, clue) ==
    \E motif \in Range(MotifTable) :
       motif.id = clue.motif_id /\ InSeq(motif.id, row.motif_ids)

\* The puzzle shown is the whole stored puzzle: every entry is there with its
\* answer, an entry has motif null exactly when its motif is not found, it has
\* a player exactly when it is found, and it is validated from the grid alone
ServedWhole ==
    PuzzleShown =>
       LET row == getPuzzle(pageId)[1]
           results == validation
       IN  /\ Len(clues) = Len(row.layout.result)
           /\ \A i \in 1..Len(clues) :
                 LET stored == row.layout.result[i]
                 IN  /\ clues[i].answer = stored.answer
                     /\ clues[i].motif_id = stored.motif_id
                     /\ clues[i].orientation = stored.orientation
                     /\ (clues[i].motif = <<>>) = ~HasMotifRow(row, stored)
                     /\ AudioPlayerShown(clues[i]) = HasMotifRow(row, stored)
                     /\ results[i - 1] = (/\ EveryCellFilled(clues[i], userInput)
                                          /\ EveryCellMatches(clues[i], userInput))

\* A click on a cell of an entry without motif selects an entry of the cell
SelectsUnmatched(row, col) ==
    (/\ PuzzleShown
     /\ row < layout.rows /\ col < layout.cols
     /\ \E i \in Range(findCluesAtCell(clues, row, col)) : clues[i + 1].motif = <<>>
     /\ handleCellClick(row, col)) =>
        InSeq(activeClueIndex', findCluesAtCell(clues, row, col))

----------------------------------------------------------------------------
(* database.ts: createMotif and updateMotif on the motifs table, whose      *)
(* checksum column is declared `checksum TEXT UNIQUE`.  A row keeps the     *)
(* columns the functions below and the properties read; first_pitch,        *)
(* last_pitch and interval_profile are derived from pitch_sequence alone.   *)

\* Calls of createMotif and updateMotif in one behaviour
MaxWrites == 3

\* createHash('sha256').update(pitchSequence.trim().toUpperCase()): a digest
\* is written as the string it is the digest of, SHA-256 taken as free of
\* collisions
calculateChecksum(pitchSequence) == ToUpperCase(Trim(pitchSequence))

\* note.match(/(\d+)$/): the trailing digits of a note
RECURSIVE TrailingDigits(_)
TrailingDigits(note) ==
    IF note # <<>> /\ note[Len(note)] \in Digits
    THEN Append(TrailingDigits(SubSeq(note, 1, Len(note) - 1)), note[Len(note)])
    ELSE <<>>

DigitValue(c) ==
    CASE c = "0" -> 0 [] c = "1" -> 1 [] c = "2" -> 2 [] c = "3" -> 3
      [] c = "4" -> 4 [] c = "5" -> 5 [] c = "6" -> 6 [] c = "7" -> 7
      [] c = "8" -> 8 [] OTHER -> 9

\* parseInt(digits, 10)
RECURSIVE ParseInt(_)
ParseInt(digits) ==
    IF digits = <<>> THEN 0
    ELSE 10 * ParseInt(SubSeq(digits, 1, Len(digits) - 1))
         + DigitValue(digits[Len(digits)])

\* extractOctave(note): 4 for a note without octave
extractOctave(note) ==
    IF TrailingDigits(note) = <<>> THEN 4 ELSE ParseInt(TrailingDigits(note))

\* pitchMap[pitch] ?? 0 of calculateIntervalProfile
SemitoneOrZero(pitch) == IF pitch \in PitchNames THEN Semitone(pitch) ELSE 0

\* calculateIntervalProfile(pitchSequence): the signed semitone steps from
\* each note to the next, here the list of the numbers the string joins
calculateIntervalProfile(pitchSequence) ==
    LET notes == parsePitchSequence(pitchSequence)
    IN  [i \in 1..(Len(notes) - 1) |->
            (SemitoneOrZero(extractPitchClass(notes[i + 1]))
                + extractOctave(notes[i + 1]) * 12)
            - (SemitoneOrZero(extractPitchClass(notes[i]))
                + extractOctave(notes[i]) * 12)]

\* extractPitchClass(notes[0] || '')
FirstPitchOf(pitchSequence) ==
    extractPitchClass(parsePitchSequence(pitchSequence)[1])

\* extractPitchClass(notes[notes.length - 1] || '')
LastPitchOf(pitchSequence) ==
    LET notes == parsePitchSequence(pitchSequence)
    IN  extractPitchClass(notes[Len(notes)])

\* The pitch sequences written: one melody spelled three ways, two others
\* and one with octaves
WrittenSequences ==
    { <<"G", " ", "G", " ", "D">>, <<"g", " ", "g", " ", "d">>,
      <<" ", "G", " ", "G", " ", "D">>, <<"E", " ", "G", " ", "G">>,
      <<"A", " ", "F", " ", "D">>,
      <<"C", "4", " ", "E", " ", "G", "#", "5">> }

\* The arguments of createMotif
CreateData ==
    [descriptor : {<<"a">>}, pitch_sequence : WrittenSequences,
     rhythm_sequence : {Undefined}, difficulty : {3}, recognition_score : {5}]

\* The arguments of updateMotif: Undefined and <<>> are fields left out
UpdateData ==
    [descriptor : {Undefined, <<"b", " ">>},
     pitch_sequence : {Undefined} \cup WrittenSequences,
     rhythm_sequence : {Undefined}, difficulty : {<<>>, <<4>>},
     recognition_score : {<<>>}]

\* The UNIQUE constraint on checksum: another row holds this checksum
ChecksumTaken(rows, checksum, id) ==
    \E n \in 1..Len(rows) : rows[n].id # id /\ rows[n].checksum = checksum

\* data.rhythm_sequence?.trim() || null
RhythmOf(rhythm_sequence) ==
    IF rhythm_sequence \in {Undefined, Null} \/ Trim(rhythm_sequence) = <<>>
    THEN Null ELSE Trim(rhythm_sequence)

\* The call is over: what it did to the table and how it ended
Written(rows, op, id, data, outcome) ==
    motifsDb' = [rows |-> rows, calls |-> motifsDb.calls + 1,
                 last |-> <<[op |-> op, id |-> id, data |-> data,
                             outcome |-> outcome]>>]

\* createMotif(data): the INSERT, whose id is the next of AUTOINCREMENT; the
\* row is in the source 'User Contributed' (3 here)
createMotif(data) ==
    /\ motifsDb.calls < MaxWrites
    /\ LET rows == motifsDb.rows
           checksum == calculateChecksum(data.pitch_sequence)
           row == [id |-> Len(rows) + 1,
                   pitch_sequence |-> Trim(data.pitch_sequence),
                   rhythm_sequence |-> RhythmOf(data.rhythm_sequence),
                   descriptor |-> Trim(data.descriptor),
                   length |-> Len(parsePitchSequence(data.pitch_sequence)),
                   first_pitch |-> FirstPitchOf(data.pitch_sequence),
                   last_pitch |-> LastPitchOf(data.pitch_sequence),
                   interval_profile |-> calculateIntervalProfile(data.pitch_sequence),
                   difficulty |-> data.difficulty,
                   recognition_score |-> data.recognition_score,
                   source_id |-> 3,
                   checksum |-> checksum]
       IN  IF ChecksumTaken(rows, checksum, 0)
           THEN Written(rows, "createMotif", 0, data, "thrown")
           ELSE Written(Append(rows, row), "createMotif", 0, data, "id")
    /\ UNCHANGED <<sessionVars, dbPuzzles, encVars, genVars, audioVars, valVars, mainVars>>

\* The row after the UPDATE, its checksum left as it was
Updated_KeepsChecksum(row, data) ==
    [row EXCEPT
       !.descriptor = IF data.descriptor # Undefined
                      THEN Trim(data.descriptor) ELSE @,
       !.pitch_sequence = IF data.pitch_sequence # Undefined
                          THEN Trim(data.pitch_sequence) ELSE @,
       !.length = IF data.pitch_sequence # Undefined
                  THEN Len(parsePitchSequence(data.pitch_sequence)) ELSE @,
       !.first_pitch = IF data.pitch_sequence # Undefined
                       THEN FirstPitchOf(data.pitch_sequence) ELSE @,
       !.last_pitch = IF data.pitch_sequence # Undefined
                      THEN LastPitchOf(data.pitch_sequence) ELSE @,
       !.interval_profile = IF data.pitch_sequence # Undefined
                            THEN calculateIntervalProfile(data.pitch_sequence)
                            ELSE @,
       !.rhythm_sequence = IF data.rhythm_sequence # Undefined
                           THEN RhythmOf(data.rhythm_sequence) ELSE @,
       !.difficulty = IF data.difficulty # <<>> THEN data.difficulty[1] ELSE @,
       !.recognition_score = IF data.recognition_score # <<>>
                             THEN data.recognition_score[1] ELSE @]

\* The row after the UPDATE, its interval_profile left as it was
Updated_KeepsProfile(row, data) ==
    [row EXCEPT
       !.descriptor = IF data.descriptor # Undefined
                      THEN Trim(data.descriptor) ELSE @,
       !.pitch_sequence = IF data.pitch_sequence # Undefined
                          THEN Trim(data.pitch_sequence) ELSE @,
       !.length = IF data.pitch_sequence # Undefined
                  THEN Len(parsePitchSequence(data.pitch_sequence)) ELSE @,
       !.first_pitch = IF data.pitch_sequence # Undefined
                       THEN FirstPitchOf(data.pitch_sequence) ELSE @,
       !.last_pitch = IF data.pitch_sequence # Undefined
                      THEN LastPitchOf(data.pitch_sequence) ELSE @,
       !.checksum = IF data.pitch_sequence # Undefined
                    THEN calculateChecksum(data.pitch_sequence) ELSE @,
       !.rhythm_sequence = IF data.rhythm_sequence # Undefined
                           THEN RhythmOf(data.rhythm_sequence) ELSE @,
       !.difficulty = IF data.difficulty # <<>> THEN data.difficulty[1] ELSE @,
       !.recognition_score = IF data.recognition_score # <<>>
                             THEN data.recognition_score[1] ELSE @]

\* The row after the UPDATE: every field of data that is not undefined is
\* set, and with pitch_sequence the columns derived from it
Updated(row, data) ==
    [row EXCEPT
       !.descriptor = IF data.descriptor # Undefined
                      THEN Trim(data.descriptor) ELSE @,
       !.pitch_sequence = IF data.pitch_sequence # Undefined
                          THEN Trim(data.pitch_sequence) ELSE @,
       !.length = IF data.pitch_sequence # Undefined
                  THEN Len(parsePitchSequence(data.pitch_sequence)) ELSE @,
       !.first_pitch = IF data.pitch_sequence # Undefined
                       THEN FirstPitchOf(data.pitch_sequence) ELSE @,
       !.last_pitch = IF data.pitch_sequence # Undefined
                      THEN LastPitchOf(data.pitch_sequence) ELSE @,
       !.interval_profile = IF data.pitch_sequence # Undefined
                            THEN calculateIntervalProfile(data.pitch_sequence)
                            ELSE @,
       !.checksum = IF data.pitch_sequence # Undefined
                    THEN calculateChecksum(data.pitch_sequence) ELSE @,
       !.rhythm_sequence = IF data.rhythm_sequence # Undefined
                           THEN RhythmOf(data.rhythm_sequence) ELSE @,
       !.difficulty = IF data.difficulty # <<>> THEN data.difficulty[1] ELSE @,
       !.recognition_score = IF data.recognition_score # <<>>
                             THEN data.recognition_score[1] ELSE @]

\* updateMotif(id, data): false for an id that is not there, true when
\* nothing is to update, else the UPDATE of the row
updateMotif(id, data) ==
    /\ motifsDb.calls < MaxWrites
    /\ LET rows == motifsDb.rows
           existing == { n \in 1..Len(rows) : rows[n].id = id }
           nothing == /\ data.descriptor = Undefined
                      /\ data.pitch_sequence = Undefined
                      /\ data.rhythm_sequence = Undefined
                      /\ data.difficulty = <<>>
                      /\ data.recognition_score = <<>>
       IN  IF existing = {}
           THEN Written(rows, "updateMotif", id, data, "false")
           ELSE IF nothing
           THEN Written(rows, "updateMotif", id, data, "true")
           ELSE LET n == CHOOSE n \in existing : TRUE
                    row == Updated(rows[n], data)
                IN  IF ChecksumTaken(rows, row.checksum, id)
                    THEN Written(rows, "updateMotif", id, data, "thrown")
                    ELSE Written([rows EXCEPT ![n] = row], "updateMotif", id,
                                 data, "true")
    /\ UNCHANGED <<sessionVars, dbPuzzles, encVars, genVars, audioVars, valVars, mainVars>>

DbInit ==
    /\ puzzleStore = [puzzle |-> <<>>, loading |-> FALSE, error |-> Null]
    /\ userInput = <<>>
    /\ activeClueIndex = NoIndex
    /\ activeCellPosition = NoCell
    /\ gridInitialized = FALSE
    /\ pageId = 0
    /\ storage = [id \in PageIds |-> <<>>]
    /\ fetching = <<>>
    /\ edits = 0
    /\ mounts = 0
    /\ dbPuzzles = <<>>
    /\ encIn = <<>>
    /\ encOut = <<>>
    /\ encOp = <<>>
    /\ gen = GenIdle
    /\ engineLog = <<>>
    /\ served = <<>>
    /\ audioStore = initialState
    /\ sounding = <<>>
    /\ passes = <<>>
    /\ main = MainIdle
    /\ motifsDb = DbIdle

DbNext ==
    \/ \E data \in CreateData : createMotif(data)
    \/ \E id \in 1..2, data \in UpdateData : updateMotif(id, data)

SpecDb == DbInit /\ [][DbNext]_vars

\* No two rows share a checksum
ChecksumsDistinct(rows) ==
    \A m, n \in 1..Len(rows) : rows[m].checksum = rows[n].checksum => m = n

\* The write asked for would give a row the checksum of another row
WouldDuplicate(rows, call) ==
    /\ call.data.pitch_sequence # Undefined
    /\ call.op = "updateMotif" => \E n \in 1..Len(rows) : rows[n].id = call.id
    /\ \E n \in 1..Len(rows) :
          /\ rows[n].id # call.id
          /\ rows[n].checksum = ToUpperCase(Trim(call.data.pitch_sequence))

\* C30: after every createMotif and updateMotif no two motifs share a
\* checksum; a write that would duplicate the checksum of another motif is
\* rejected with a throw, and a rejected write leaves every row as it was.
C30_ChecksumUnique ==
    [][motifsDb' # motifsDb =>
          LET rows == motifsDb.rows
              call == motifsDb'.last[1]
          IN  /\ ChecksumsDistinct(motifsDb'.rows)
              /\ WouldDuplicate(rows, call) => call.outcome = "thrown"
              /\ call.outcome = "thrown" => motifsDb'.rows = rows]_vars

\* An update of the second motif to the first one's melody, spelled in lower
\* case, was rejected
C30_Witness ==
    /\ Len(motifsDb.rows) = 2
    /\ motifsDb.last # <<>>
    /\ motifsDb.last[1].op = "updateMotif"
    /\ motifsDb.last[1].id = 2
    /\ motifsDb.last[1].outcome = "thrown"
    /\ motifsDb.last[1].data.pitch_sequence = <<"g", " ", "g", " ", "d">>
    /\ motifsDb.rows[1].pitch_sequence = <<"G", " ", "G", " ", "D">>

\* A create of a melody that is there, with a space before it, was rejected
C30_WitnessCreate ==
    /\ Len(motifsDb.rows) = 1
    /\ motifsDb.last # <<>>
    /\ motifsDb.last[1].op = "createMotif"
    /\ motifsDb.last[1].outcome = "thrown"
    /\ motifsDb.last[1].data.pitch_sequence = <<" ", "G", " ", "G", " ", "D">>

\* The columns derived from pitch_sequence are those of the stored sequence
DerivedFromStored(row) ==
    LET notes == parsePitchSequence(row.pitch_sequence)
    IN  /\ row.length = Len(notes)
        /\ row.first_pitch = extractPitchClass(notes[1])
        /\ row.last_pitch = extractPitchClass(notes[Len(notes)])
        /\ row.interval_profile = calculateIntervalProfile(row.pitch_sequence)
        /\ row.checksum = ToUpperCase(Trim(row.pitch_sequence))

\* C31: after every successful createMotif or updateMotif the stored length,
\* first_pitch, last_pitch, interval_profile and checksum of every motif
\* are the values derived from its stored pitch_sequence.
C31_DerivedNeverStale ==
    \A n \in 1..Len(motifsDb.rows) : DerivedFromStored(motifsDb.rows[n])

\* The first motif, created as G G D, was updated to the melody with octaves
C31_Witness ==
    /\ motifsDb.last # <<>>
    /\ motifsDb.last[1].op = "updateMotif"
    /\ motifsDb.last[1].outcome = "true"
    /\ motifsDb.last[1].id = 1
    /\ motifsDb.calls = 2
    /\ motifsDb.rows[1].pitch_sequence = <<"C", "4", " ", "E", " ", "G", "#", "5">>
    /\ motifsDb.rows[1].interval_profile = <<4, 16>>
    /\ motifsDb.rows[1].first_pitch = <<"C">>
    /\ motifsDb.rows[1].last_pitch = <<"G", "#">>

----------------------------------------------------------------------------
(* api/motifs/+server.ts: POST and PUT, which validate the body and call    *)
(* createMotif and updateMotif.  A field the body does not have is          *)
(* Undefined, a number that is missing <<>>.                                *)

\* Requests in one behaviour
MaxRequests == 2

\* A pitch sequence of 16 notes
SixteenNotes == [i \in 1..31 |-> IF i % 2 = 1 THEN "C" ELSE " "]

\* The motif the table holds at the start, placed in the stored puzzle
SeededMotif ==
    [id |-> 1,
     pitch_sequence |-> MotifTable[1].pitch_sequence,
     rhythm_sequence |-> Null,
     descriptor |-> MotifTable[1].descriptor,
     length |-> 4,
     first_pitch |-> <<"G">>,
     last_pitch |-> <<"D", "#">>,
     interval_profile |-> <<0, 0, -4>>,
     difficulty |-> 1,
     recognition_score |-> 10,
     source_id |-> 1,
     checksum |-> calculateChecksum(MotifTable[1].pitch_sequence)]

PostBodies ==
    [title : {Undefined, <<"t">>},
     pitch_sequence : {Undefined, <<"G", " ", "G">>, <<"G", " ", "G", " ", "D">>,
                       <<"A", " ", "F", " ", "D">>, SixteenNotes},
     rhythm_sequence : {Undefined, <<"4", " ", "8">>},
     difficulty : {<<>>}, recognition_score : {<<>>}]

PutBodies ==
    [id : {0, 1, 3},
     title : {Undefined, <<"b">>},
     pitch_sequence : {Undefined, <<"G", " ", "G">>, <<"A", " ", "F", " ", "D">>,
                       <<"G", " ", "G", " ", "D">>, SixteenNotes},
     rhythm_sequence : {Undefined, <<"4", " ", "8">>},
     difficulty : {<<>>}, recognition_score : {<<>>}]

\* notes.length < 3 || notes.length > 15 is false, whatever the length
NotesInRange_NoBounds(pitch_sequence) == TRUE

\* pitch_sequence.trim().split(/\s+/) has 3 to 15 notes
NotesInRange(pitch_sequence) ==
    LET notes == parsePitchSequence(pitch_sequence)
    IN  ~(Len(notes) < 3 \/ Len(notes) > 15)

\* POST: 400 for a body without title or pitch_sequence or with a sequence
\* out of range, else createMotif
POST(body) ==
    /\ motifsDb.calls < MaxRequests
    /\ IF \/ ~Truthy(body.title) \/ ~Truthy(body.pitch_sequence)
          \/ ~NotesInRange(body.pitch_sequence)
       THEN /\ Written(motifsDb.rows, "POST", 0, body, "400")
            /\ UNCHANGED <<sessionVars, dbPuzzles, encVars, genVars, audioVars,
                           valVars, mainVars>>
       ELSE createMotif(
              [descriptor |-> body.title,
               pitch_sequence |-> body.pitch_sequence,
               rhythm_sequence |-> IF Truthy(body.rhythm_sequence)
                                   THEN body.rhythm_sequence ELSE Null,
               difficulty |-> IF body.difficulty \in {<<>>, <<0>>} THEN 3
                              ELSE body.difficulty[1],
               recognition_score |-> IF body.recognition_score \in {<<>>, <<0>>}
                                     THEN 5 ELSE body.recognition_score[1]])

\* PUT: 400 for a body without id or with a sequence out of range, else
\* updateMotif with the fields the body has
PUT(body) ==
    /\ motifsDb.calls < MaxRequests
    /\ IF \/ body.id = 0
          \/ /\ body.pitch_sequence # Undefined
             /\ ~NotesInRange(body.pitch_sequence)
       THEN /\ Written(motifsDb.rows, "PUT", body.id, body, "400")
            /\ UNCHANGED <<sessionVars, dbPuzzles, encVars, genVars, audioVars,
                           valVars, mainVars>>
       ELSE updateMotif(body.id,
              [descriptor |-> body.title,
               pitch_sequence |-> body.pitch_sequence,
               rhythm_sequence |-> body.rhythm_sequence,
               difficulty |-> body.difficulty,
               recognition_score |-> body.recognition_score])

\* The status of the response to the last request
ResponseStatus(call) ==
    CASE call.outcome = "400" -> 400
      [] call.outcome = "false" -> 404
      [] call.outcome = "thrown" -> 500
      [] OTHER -> 200

ApiInit ==
    /\ puzzleStore = [puzzle |-> <<>>, loading |-> FALSE, error |-> Null]
    /\ userInput = <<>>
    /\ activeClueIndex = NoIndex
    /\ activeCellPosition = NoCell
    /\ gridInitialized = FALSE
    /\ pageId = 0
    /\ storage = [id \in PageIds |-> <<>>]
    /\ fetching = <<>>
    /\ edits = 0
    /\ mounts = 0
    /\ dbPuzzles = <<StoredPuzzles[1]>>
    /\ encIn = <<>>
    /\ encOut = <<>>
    /\ encOp = <<>>
    /\ gen = GenIdle
    /\ engineLog = <<>>
    /\ served = <<>>
    /\ audioStore = initialState
    /\ sounding = <<>>
    /\ passes = <<>>
    /\ main = MainIdle
    /\ motifsDb = [DbIdle EXCEPT !.rows = <<SeededMotif>>]

ApiNext ==
    \/ \E body \in PostBodies : POST(body)
    \/ \E body \in PutBodies : PUT(body)

SpecApi == ApiInit /\ [][ApiNext]_vars

\* The number of tokens of a sequence of pitches or of durations
TokenCount(sequence) == Len(parsePitchSequence(sequence))

\* C32: in every motif stored through POST and PUT a rhythm_sequence that is
\* present has as many duration codes as pitch_sequence has pitch tokens.
C32_RhythmMatchesPitches ==
    \A n \in 1..Len(motifsDb.rows) :
       LET row == motifsDb.rows[n]
       IN  row.rhythm_sequence # Null =>
              TokenCount(row.rhythm_sequence) = TokenCount(row.pitch_sequence)

\* The motif is placed in a persisted puzzle
PlacedInAPuzzle(id) ==
    \E n \in 1..Len(dbPuzzles) : InSeq(id, dbPuzzles[n].motif_ids)

\* C33: the pitch_sequence of a motif placed in a persisted puzzle is
\* immutable: no request changes the stored pitch_sequence of a motif whose
\* id is in the motif_ids of a puzzle.
C33_PlacedSequenceImmutable ==
    [][\A n \in 1..Len(motifsDb.rows) :
          PlacedInAPuzzle(motifsDb.rows[n].id) =>
             motifsDb'.rows[n].pitch_sequence = motifsDb.rows[n].pitch_sequence]_vars

\* The request carries a pitch_sequence of fewer than 3 or more than 15 notes
OutOfRange(call) ==
    /\ call.data.pitch_sequence # Undefined
    /\ TokenCount(call.data.pitch_sequence) \notin 3..15

\* The request is a PUT for an id no motif has
PutForMissingId(call, rows) ==
    /\ call.op \in {"PUT", "updateMotif"}
    /\ \A n \in 1..Len(rows) : rows[n].id # call.id

\* C35 as stated: a sequence out of range gets 400 and no write, and every
\* PUT for an id that does not exist gets 404 and no write.
C35_RejectsAsStated ==
    [][motifsDb' # motifsDb =>
          LET rows == motifsDb.rows
              call == motifsDb'.last[1]
          IN  /\ OutOfRange(call) =>
                    ResponseStatus(call) = 400 /\ motifsDb'.rows = rows
              /\ PutForMissingId(call, rows) =>
                    ResponseStatus(call) = 404 /\ motifsDb'.rows = rows]_vars

\* C35: POST and PUT answer 400 to a pitch_sequence of fewer than 3 or more
\* than 15 notes and write nothing; a PUT for an id that does not exist
\* writes nothing and is answered 404 when its id is not 0 and its
\* pitch_sequence, if any, is in range, and 400 otherwise.
C35_RejectsWithoutWrite ==
    [][motifsDb' # motifsDb =>
          LET rows == motifsDb.rows
              call == motifsDb'.last[1]
          IN  /\ OutOfRange(call) =>
                    ResponseStatus(call) = 400 /\ motifsDb'.rows = rows
              /\ PutForMissingId(call, rows) =>
                    /\ motifsDb'.rows = rows
                    /\ ResponseStatus(call) =
                          IF call.id = 0 \/ OutOfRange(call) THEN 400 ELSE 404]_vars

\* A PUT of a melody in range for id 3, which no motif has, was answered 404
\* after a POST of two notes was answered 400
C35_Witness ==
    /\ motifsDb.calls = 2
    /\ motifsDb.rows = <<SeededMotif>>
    /\ motifsDb.last[1].op = "updateMotif"
    /\ motifsDb.last[1].id = 3
    /\ motifsDb.last[1].data.pitch_sequence = <<"A", " ", "F", " ", "D">>
    /\ ResponseStatus(motifsDb.last[1]) = 404

\* A POST of sixteen notes was answered 400
C35_WitnessTooLong ==
    /\ motifsDb.last # <<>>
    /\ motifsDb.last[1].op = "POST"
    /\ motifsDb.last[1].data.title = <<"t">>
    /\ motifsDb.last[1].data.pitch_sequence = SixteenNotes
    /\ ResponseStatus(motifsDb.last[1]) = 400
    /\ motifsDb.rows = <<SeededMotif>>

----------------------------------------------------------------------------
(* CrosswordGrid.svelte: the validity a cell shows *)

\* The cell of the grid holds a symbol
HoldsSymbol(grid, row, col) ==
    HasRow(grid, row) /\ CellAt(grid, row, col) \notin {Null, Undefined, <<>>}

\* The validity of the cell by the grid and the layout alone: none for a cell
\* without symbol or entry, else the correctness of the first entry, in the
\* order of the layout, that covers the cell
ValidityOf(grid, theClues, row, col) ==
    LET covering == { i \in 1..Len(theClues) :
                        InSeq(<<row, col>>, getClueCells(theClues[i])) }
    IN  IF ~HoldsSymbol(grid, row, col) \/ covering = {} THEN "null"
        ELSE LET first == CHOOSE i \in covering : \A j \in covering : i <= j
             IN  IF /\ EveryCellFilled(theClues[first], grid)
                    /\ EveryCellMatches(theClues[first], grid)
                 THEN "true" ELSE "false"

\* C34: the validity shown for a cell is a function of the grid and the
\* layout alone: none for an empty cell, and for a filled cell the state of
\* the lowest-indexed entry covering it, whichever clue is active.
C34_CellValidityDeterministic ==
    PuzzleShown =>
       \A row \in 0..(layout.rows - 1), col \in 0..(layout.cols - 1) :
          getCellValidation(row, col) = ValidityOf(userInput, clues, row, col)

----------------------------------------------------------------------------
(* The first notes placed in the grid *)

\* The entry has motif data: clue.motif?.pitch_sequence
HasMotifData(clue) == clue.motif # <<>> /\ Truthy(clue.motif[1].pitch_sequence)

\* The first cell of every entry with motif data holds the grid symbol of the
\* motif's first pitch, and that symbol is the first character of answer
FirstCellsHold ==
    \A i \in 1..Len(clues) :
       HasMotifData(clues[i]) =>
          LET symbol == noteToLetter(getFirstNote(clues[i].motif[1].pitch_sequence))
              x == clues[i].position.x
              y == clues[i].position.y
          IN  /\ HasRow(userInput, y)
              /\ CellAt(userInput, y, x) = symbol
              /\ symbol = <<clues[i].answer[1]>>

\* C36: when a puzzle is shown whose grid the page has initialised, restored
\* or cleared and the user has not edited, the first cell of every entry
\* with motif data holds the grid symbol of the motif's first pitch, which
\* is the first character of the entry's answer.
C36_FirstNotesPlaced ==
    (PuzzleShown /\ gridInitialized /\ edits = 0) => FirstCellsHold

----------------------------------------------------------------------------
(* stores/puzzle.ts: loadPuzzle calls that overlap.  The store module alone:
   a call's first update, and what it sets when its response arrives.  Here
   `fetching` lists the ids of the calls that wait for their response, in
   the order of the calls, and pageId is the id of the latest call. *)

\* Calls of loadPuzzle in one behaviour
MaxLoads == 3

\* What loadPuzzle(id) sets once its response is there: the try branch for
\* a row that exists, the catch branch for { success: false }
Loaded(id) ==
    LET found == getPuzzle(id)
    IN  IF found # <<>>
        THEN [puzzle |-> <<EnrichPuzzle(found[1])>>, loading |-> FALSE, error |-> Null]
        ELSE [puzzle |-> <<>>, loading |-> FALSE,
              error |-> <<"P", "u", "z", "z", "l", "e", " ",
                          "n", "o", "t", " ", "f", "o", "u", "n", "d">>]

\* loadPuzzle(id) up to its await
loadPuzzle(id) ==
    /\ mounts < MaxLoads
    /\ mounts' = mounts + 1
    /\ pageId' = id
    /\ puzzleStore' = [puzzleStore EXCEPT !.loading = TRUE, !.error = Null]
    /\ fetching' = Append(fetching, id)
    /\ UNCHANGED <<userInput, activeClueIndex, activeCellPosition, gridInitialized,
                   storage, edits, dbPuzzles>>

\* The response of the k-th waiting call arrives and the call goes on
ResponseArrives(k) ==
    /\ k \in 1..Len(fetching)
    /\ puzzleStore' = Loaded(fetching[k])
    /\ fetching' = SubSeq(fetching, 1, k - 1) \o SubSeq(fetching, k + 1, Len(fetching))
    /\ UNCHANGED <<userInput, activeClueIndex, activeCellPosition, gridInitialized,
                   pageId, storage, edits, mounts, dbPuzzles>>

LoadNext ==
    \/ \E id \in PageIds : loadPuzzle(id) /\ UNCHANGED <<encVars, genVars, audioVars, valVars, mainVars, dbVars>>
    \/ \E k \in 1..MaxLoads : ResponseArrives(k) /\ UNCHANGED <<encVars, genVars, audioVars, valVars, mainVars, dbVars>>

SpecLoad == Init /\ [][LoadNext]_vars

\* C37: once every response has arrived, the store holds what the most
\* recently requested puzzle's response gives, whatever the order in which
\* the responses of overlapping calls arrived.
C37_LatestRequestWins ==
    (mounts > 0 /\ fetching = <<>>) => puzzleStore = Loaded(pageId)

\* No call is waiting after at least one load: loading is false and exactly
\* one of puzzle and error is set
SettledStore ==
    (mounts > 0 /\ fetching = <<>>) =>
       /\ ~puzzleStore.loading
       /\ (puzzleStore.puzzle # <<>>) # (puzzleStore.error # Null)

\* While a call waits, or after a failed load, the store holds no puzzle
NoPuzzleOfAnEarlierLoad ==
    (fetching # <<>> \/ puzzleStore.error # Null) => puzzleStore.puzzle = <<>>

\* C38: with no load in flight after at least one load the store has
\* loading = false and exactly one of puzzle and error; while a load is in
\* flight or after it has failed the store holds no previously loaded puzzle.
C38_StoreNeverStale == SettledStore /\ NoPuzzleOfAnEarlierLoad

----------------------------------------------------------------------------
(* The busy flag of the audio store and the melodies that sound *)

\* The step resets the busy flag: setPlaying(false) in the finally of play
FlagReset ==
    /\ audioStore.playing
    /\ ~audioStore'.playing /\ audioStore'.currentClueIndex = NoIndex

\* The melody that ends in the step is the one started last of those sounding
LastStartedEnds == sounding' = SubSeq(sounding, 1, Len(sounding) - 1)

\* C39: the busy flag is never reset while another melody, started later
\* than the one whose playback ends, is still playing.
C39_NoResetUnderLaterMelody == [][FlagReset => LastStartedEnds]_vars

----------------------------------------------------------------------------
(* The cells that note entry and backspace write *)

\* The step is a note entry or a backspace that changes the grid
CellWritten == edits' = edits + 1 /\ userInput' # userInput

\* The cell lies inside the shown puzzle's grid and is not blocked
OpenCell(row, col) ==
    /\ row \in 0..(layout.rows - 1)
    /\ col \in 0..(layout.cols - 1)
    /\ ~isCellEmpty(row, col)

\* No blocked cell of the shown puzzle holds a symbol
BlockedCellsUnset ==
    PuzzleShown =>
       \A row \in 0..(layout.rows - 1), col \in 0..(layout.cols - 1) :
          isCellEmpty(row, col) => InputAt(userInput, row, col) \in {Null, Undefined}

\* C40: every write of a note entry or a backspace targets a cell inside
\* the shown puzzle's grid that is not blocked.
C40_WritesStayInGrid ==
    [][CellWritten => OpenCell(activeCellPosition.row, activeCellPosition.col)]_vars

====
